---- MODULE Spec2Model ----
(***************************************************************************)
(* Claim adjudication workflow of the EcoCivic backend: recycling          *)
(* declarations, fraud appeals, the per-wallet warning counter and the     *)
(* accumulate-then-claim reward balance.                                    *)
(*                                                                         *)
(* Spec      : every HTTP handler / service method is one atomic action.   *)
(* SpecConc  : approve_declaration and mark_fraud are split at their       *)
(*             database round trips (SELECT ... / COMMIT), so that two     *)
(*             requests on the same declaration can interleave.            *)
(* SpecFraud : two declarations of one wallet, marked and appealed.        *)
(* SpecClaim : claim_rewards in its three steps (read, mint, commit).      *)
(* SpecCredit: claim_rewards next to the approval of a second declaration. *)
(* SpecQr    : the single-material QR token flow.                          *)
(* SpecWater : the water-meter validation and fraud-evaluate routes.       *)
(* SpecInsp  : physical inspections, schedule_inspection in two steps.     *)
(* SpecSweep : check_and_expire_old_qrs as a job in two steps.             *)
(* SpecLive  : the running system with its scheduler, under fairness.      *)
(* SpecFrame : the declaration routes, the appeal decision and the claim.  *)
(* SpecMark  : mark_declaration_fraud when its second transaction fails.   *)
(* SpecReject: the reject branch of decide_fraud_appeal in three steps.    *)
(* SpecClient: the penalty client called with every input.                 *)
(* SpecSignal: the signal functions called with every input.               *)
(***************************************************************************)
EXTENDS Integers, Sequences, FiniteSets, TLC

VARIABLES
    dbCaseSensitive,  \* collation of the configured database (DATABASE_URL)
    dbRepeatableRead, \* isolation level of the configured database
    now,              \* datetime.utcnow(), in hours
    users,            \* table users, keyed by the stored wallet_address string
    decls,            \* table recycling_declarations, index = id
    appeals,          \* table fraud_appeals, index = id
    penaltyLog,       \* calls made to the external penalty client, in order
    credited,         \* per declaration id: how often its reward was added to a balance
    reqs,             \* per client: its request in flight
    last,             \* the response of the most recent request
    minted,           \* per wallet: BELT minted to it by claim_rewards
    qrTokens,         \* the QR tokens handed out by generate_qr_token
    rewardCalls,      \* per QR token: calls of blockchain_service.reward_recycling
    demoState,        \* the "state" entry of demo_state.json (0 while the file is absent)
    readingCalls,     \* calls of blockchain_service.submit_water_reading, in order
    readings,         \* table water_meter_readings, oldest first
    inspections,      \* table inspection_schedules, index = id
    fraudRecords,     \* table fraud_records, index = id
    deposits,         \* table user_deposits: deposit_amount per wallet, 0 = no row
    cronDue,          \* APScheduler: the cron trigger of job do_cleanup has fired
    signalCall        \* the last call of a signal function: its inputs and its result

vars == <<dbCaseSensitive, dbRepeatableRead, now, users, decls, appeals,
          penaltyLog, credited, reqs, last, minted, qrTokens, rewardCalls,
          demoState, readingCalls, readings, inspections, fraudRecords, deposits,
          cronDue, signalCall>>

\* the state of the water-meter and inspection routes
waterState == <<demoState, readingCalls, readings, inspections, fraudRecords, deposits,
                signalCall>>

\* the state that no handler of the declaration and appeal routes touches
elsewhere == <<minted, qrTokens, rewardCalls, waterState, cronDue>>

-----------------------------------------------------------------------------
(* Bounds of the model *)

MaxDecls == 1
MaxAppeals == 3
MaxTime == 4
MaxFraudDecls == 2
MaxTokens == 2
MaxUses == 2
MaxSubmits == 2
MaxEvidence == 2
MaxReadings == 1
MaxInspections == 2
MaxFraudRecords == 2

(* Program constants *)

QR_TOKEN_EXPIRY_HOURS == 3
InitialWarnings == 2
WarningCap == 2
RatePlastic == 10
RateGlass == 12
RateMetal == 15
RatePaper == 8
RateElectronic == 25
MaxKg == 100
MaxElectronic == 20
MaxQrAmount == 1000

-----------------------------------------------------------------------------
(* Wallet addresses. An address is a hex string; what matters to the code  *)
(* is its letter case. "wA" stands for an address whose hex digits contain *)
(* letters, so that its lower-case, upper-case and checksummed spellings   *)
(* are three different strings. An address of digits only has one          *)
(* spelling; it behaves as "wA" does under a case-insensitive collation.   *)

Wallets == {"wA"}
Forms == {"lower", "checksum", "upper"}
HasHexLetters(w) == w \in {"wA"}

\* the string that spelling f of wallet w denotes
Spelling(w, f) == IF HasHexLetters(w) THEN <<w, f>> ELSE <<w, "lower">>

AddrStrings == {Spelling(w, f) : w \in Wallets, f \in Forms}

\* str.lower()
Lower(a) == Spelling(a[1], "lower")

\* utils.normalize_wallet_address: Web3.to_checksum_address
normalize_wallet_address(a) == Spelling(a[1], "checksum")

\* the wallet_address that validate_water_meter gives the caller when no
\* auth decorator has set request.current_user: a 64-digit hex string,
\* lower-cased before it is used as the key of a users row
DemoKey == <<"demo", "lower">>

\* the strings that can be the wallet_address of a users row
UserStrings == AddrStrings \cup {DemoKey}

Operators == {"op1"}
Admins == {"admin"}
Reasons == {""}
DefaultFraudReason == "default"

Clients == {"c1", "c2"}

\* a client that has sent nothing yet
Idle == [pc |-> "idle"]

NoRow == [exists |-> FALSE]
NoKey == <<"none", "none">>
NoOne == "nobody"

\* a fresh users row: the column defaults of class User
NewUser == [exists |-> TRUE,
            recycling_fraud_warnings_remaining |-> InitialWarnings,
            water_fraud_warnings_remaining |-> InitialWarnings,
            is_recycling_blacklisted |-> FALSE,
            pending_reward_balance |-> 0]

\* db.query(User).filter(User.wallet_address == a).first(): the key of the
\* matching row, or NoKey. A case-insensitive collation matches any spelling.
FindUser(us, a) ==
    LET hits == {k \in DOMAIN us :
                    /\ us[k].exists
                    /\ IF dbCaseSensitive THEN k = a ELSE k[1] = a[1]}
    IN  IF hits = {} THEN NoKey ELSE CHOOSE k \in hits : TRUE

\* int(x / 2) for a Python float x/2: truncation towards zero
TruncHalf(n) == IF n >= 0 THEN n \div 2 ELSE -((-n) \div 2)

\* create_declaration's total_reward; the kg quantities are given in half kg
TotalReward(p, g, m, pa, e) ==
    TruncHalf(p * RatePlastic + g * RateGlass + m * RateMetal + pa * RatePaper
              + 2 * e * RateElectronic)

\* inputs of create_declaration: <<plastic, glass, metal, paper>> in half kg
\* and electronic pieces. 2.5 kg plastic with 1 kg glass; a negative quantity
\* next to a positive one; nothing declared; a quantity over the cap.
QuantityChoices ==
    { <<5, 2, 0, 0, 0>>, <<-3, 2, 0, 0, 0>>, <<0, 0, 0, 0, 0>>, <<201, 0, 0, 0, 0>> }

\* what a request answered: the operation, whether it reported success, and
\* the kind of error otherwise
Response(op, ok, err) == [op |-> op, success |-> ok, error |-> err]

-----------------------------------------------------------------------------
\* the water-meter and inspection tables of a fresh database, no demo_state.json
\* no signal function has been called
NoCall == [op |-> "none"]

NoWater ==
    /\ signalCall = NoCall
    /\ demoState = 0
    /\ readingCalls = <<>>
    /\ readings = <<>>
    /\ inspections = <<>>
    /\ fraudRecords = <<>>
    /\ deposits = [w \in Wallets |-> 0]

Init ==
    /\ dbCaseSensitive \in BOOLEAN
    /\ dbRepeatableRead = FALSE
    /\ now = 0
    /\ users = [a \in UserStrings |-> NoRow]
    /\ decls = <<>>
    /\ appeals = <<>>
    /\ penaltyLog = <<>>
    /\ credited = [d \in 1..MaxDecls |-> 0]
    /\ reqs = [c \in Clients |-> Idle]
    /\ last = Response("none", TRUE, "")
    /\ minted = [w \in Wallets |-> 0]
    /\ qrTokens = <<>>
    /\ rewardCalls = <<>>
    /\ NoWater
    /\ cronDue = FALSE

\* time passes; the clock is looked at right after each QR validity window
Tick ==
    /\ now < MaxTime
    /\ now' = now + QR_TOKEN_EXPIRY_HOURS + 1
    /\ UNCHANGED <<elsewhere, dbCaseSensitive, dbRepeatableRead, users, decls, appeals,
                   penaltyLog, credited, reqs, last>>

\* POST /api/auth/login: find or create the users row of the wallet
login(a) ==
    LET w == normalize_wallet_address(a)
        k == FindUser(users, w)
    IN  /\ users' = IF k = NoKey THEN [users EXCEPT ![w] = NewUser] ELSE users
        /\ last' = Response("login", TRUE, "")
        /\ UNCHANGED <<elsewhere, dbCaseSensitive, dbRepeatableRead, now, decls, appeals,
                       penaltyLog, credited, reqs>>

\* POST /api/recycling/declare -> RecyclingDeclarationService.create_declaration
\* a: the wallet as the caller spelled it; p, g, m, pa: half kg; e: pieces
create_declaration(a, p, g, m, pa, e) ==
    LET wallet_address == Lower(normalize_wallet_address(a))
        k == FindUser(users, wallet_address)
    IN  /\ UNCHANGED <<elsewhere, dbCaseSensitive, dbRepeatableRead, now, users, appeals,
                       penaltyLog, credited, reqs>>
        /\ IF k # NoKey /\ users[k].recycling_fraud_warnings_remaining <= 0
           THEN /\ last' = Response("create_declaration", FALSE, "blacklist")
                /\ UNCHANGED decls
           ELSE IF p <= 0 /\ g <= 0 /\ m <= 0 /\ pa <= 0 /\ e <= 0
           THEN /\ last' = Response("create_declaration", FALSE, "validation")
                /\ UNCHANGED decls
           ELSE IF \/ p > 2 * MaxKg \/ g > 2 * MaxKg \/ m > 2 * MaxKg
                   \/ pa > 2 * MaxKg \/ e > MaxElectronic
           THEN /\ last' = Response("create_declaration", FALSE, "validation")
                /\ UNCHANGED decls
           ELSE /\ decls' = Append(decls,
                      [wallet_address |-> wallet_address,
                       plastic_kg |-> p, glass_kg |-> g, metal_kg |-> m,
                       paper_kg |-> pa, electronic_count |-> e,
                       qr_expires_at |-> now + QR_TOKEN_EXPIRY_HOURS,
                       is_qr_expired |-> FALSE,
                       is_qr_used |-> FALSE,
                       total_reward_amount |-> TotalReward(p, g, m, pa, e),
                       admin_approval_status |-> "pending",
                       admin_approved_by |-> NoOne,
                       is_fraud |-> FALSE,
                       fraud_reason |-> "none"])
                /\ last' = Response("create_declaration", TRUE, "")

\* adds the reward of declaration d to the balance of the users row k
Credit(us, k, amount) ==
    IF k = NoKey THEN us
    ELSE [us EXCEPT ![k].pending_reward_balance = @ + amount]

\* approve_declaration had it no status test at line 175
approve_declaration_untested(d, admin_wallet) ==
    /\ UNCHANGED <<elsewhere, dbCaseSensitive, dbRepeatableRead, now, appeals, penaltyLog, reqs>>
    /\ IF d > Len(decls)
       THEN /\ last' = Response("approve_declaration", FALSE, "not_found")
            /\ UNCHANGED <<decls, users, credited>>
       ELSE LET k == FindUser(users, decls[d].wallet_address)
            IN  /\ decls' = [decls EXCEPT ![d].admin_approval_status = "approved",
                                          ![d].admin_approved_by = admin_wallet,
                                          ![d].is_qr_used = TRUE]
                /\ users' = Credit(users, k, decls[d].total_reward_amount)
                /\ credited' = IF k = NoKey THEN credited
                               ELSE [credited EXCEPT ![d] = @ + 1]
                /\ last' = Response("approve_declaration", TRUE, "")

\* RecyclingDeclarationService.approve_declaration, as one transaction
approve_declaration(d, admin_wallet) ==
    /\ UNCHANGED <<elsewhere, dbCaseSensitive, dbRepeatableRead, now, appeals, penaltyLog, reqs>>
    /\ IF d > Len(decls)
       THEN /\ last' = Response("approve_declaration", FALSE, "not_found")
            /\ UNCHANGED <<decls, users, credited>>
       ELSE IF decls[d].admin_approval_status # "pending"
       THEN /\ last' = Response("approve_declaration", FALSE, "conflict")
            /\ UNCHANGED <<decls, users, credited>>
       ELSE LET k == FindUser(users, decls[d].wallet_address)
            IN  /\ decls' = [decls EXCEPT ![d].admin_approval_status = "approved",
                                          ![d].admin_approved_by = admin_wallet,
                                          ![d].is_qr_used = TRUE]
                /\ users' = Credit(users, k, decls[d].total_reward_amount)
                /\ credited' = IF k = NoKey THEN credited
                               ELSE [credited EXCEPT ![d] = @ + 1]
                /\ last' = Response("approve_declaration", TRUE, "")

\* reject_declaration had it counted a rejection as a fraud warning
reject_declaration_warning(d, staff_wallet) ==
    /\ UNCHANGED <<elsewhere, dbCaseSensitive, dbRepeatableRead, now, appeals,
                   penaltyLog, credited, reqs>>
    /\ IF d > Len(decls)
       THEN /\ last' = Response("reject_declaration", FALSE, "not_found")
            /\ UNCHANGED <<decls, users>>
       ELSE IF decls[d].admin_approval_status # "pending"
       THEN /\ last' = Response("reject_declaration", FALSE, "conflict")
            /\ UNCHANGED <<decls, users>>
       ELSE LET k == FindUser(users, normalize_wallet_address(decls[d].wallet_address))
            IN  /\ decls' = [decls EXCEPT ![d].admin_approval_status = "rejected",
                                          ![d].admin_approved_by = staff_wallet]
                /\ users' = IF k = NoKey THEN users
                            ELSE [users EXCEPT
                                    ![k].recycling_fraud_warnings_remaining = @ - 1]
                /\ last' = Response("reject_declaration", TRUE, "")

\* POST /api/recycling/reject/<id>
reject_declaration(d, staff_wallet) ==
    /\ UNCHANGED <<elsewhere, dbCaseSensitive, dbRepeatableRead, now, users, appeals,
                   penaltyLog, credited, reqs>>
    /\ IF d > Len(decls)
       THEN /\ last' = Response("reject_declaration", FALSE, "not_found")
            /\ UNCHANGED decls
       ELSE IF decls[d].admin_approval_status # "pending"
       THEN /\ last' = Response("reject_declaration", FALSE, "conflict")
            /\ UNCHANGED decls
       ELSE /\ decls' = [decls EXCEPT ![d].admin_approval_status = "rejected",
                                      ![d].admin_approved_by = staff_wallet]
            /\ last' = Response("reject_declaration", TRUE, "")

\* RecyclingDeclarationService.mark_fraud: the declarations table after the
\* call on an existing declaration d (the method tests no status)
mark_fraud(ds, d, admin_wallet, reason) ==
    [ds EXCEPT ![d].admin_approval_status = "fraud",
               ![d].admin_approved_by = admin_wallet,
               ![d].is_fraud = TRUE,
               ![d].fraud_reason = IF reason = "" THEN DefaultFraudReason ELSE reason]

\* the FraudAppeal row that mark_declaration_fraud inserts
NewAppeal(d, staff_wallet) ==
    [declaration_id |-> d,
     citizen_wallet |-> decls[d].wallet_address,
     staff_wallet |-> staff_wallet,
     status |-> "pending",
     admin_wallet |-> NoOne]

\* mark_declaration_fraud had it taken a warning and called the penalty client
mark_declaration_fraud_penalizing(d, staff_wallet, reason) ==
    /\ UNCHANGED <<elsewhere, dbCaseSensitive, dbRepeatableRead, now, credited, reqs>>
    /\ IF d > Len(decls)
       THEN /\ last' = Response("mark_fraud", FALSE, "not_found")
            /\ UNCHANGED <<decls, appeals, users, penaltyLog>>
       ELSE LET k == FindUser(users, normalize_wallet_address(decls[d].wallet_address))
            IN  /\ Len(appeals) < MaxAppeals
                /\ decls' = mark_fraud(decls, d, staff_wallet, reason)
                /\ appeals' = Append(appeals, NewAppeal(d, staff_wallet))
                /\ users' = IF k = NoKey \/ users[k].recycling_fraud_warnings_remaining = 0
                            THEN users
                            ELSE [users EXCEPT
                                    ![k].recycling_fraud_warnings_remaining = @ - 1]
                /\ penaltyLog' = Append(penaltyLog,
                                        [fn |-> "penalize_user_deposit",
                                         wallet |-> decls[d].wallet_address])
                /\ last' = Response("mark_fraud", TRUE, "")

\* POST /api/recycling/declarations/<id>/fraud: mark_fraud, then the appeal
mark_declaration_fraud(d, staff_wallet, reason) ==
    /\ UNCHANGED <<elsewhere, dbCaseSensitive, dbRepeatableRead, now, users, penaltyLog,
                   credited, reqs>>
    /\ IF d > Len(decls)
       THEN /\ last' = Response("mark_fraud", FALSE, "not_found")
            /\ UNCHANGED <<decls, appeals>>
       ELSE /\ Len(appeals) < MaxAppeals
            /\ decls' = mark_fraud(decls, d, staff_wallet, reason)
            /\ appeals' = Append(appeals, NewAppeal(d, staff_wallet))
            /\ last' = Response("mark_fraud", TRUE, "")

\* RecyclingDeclarationService.expire_qr; token t belongs to declaration t
expire_qr(t) ==
    /\ UNCHANGED <<elsewhere, dbCaseSensitive, dbRepeatableRead, now, users, appeals,
                   penaltyLog, credited, reqs>>
    /\ IF t > Len(decls)
       THEN /\ last' = Response("expire_qr", FALSE, "not_found")
            /\ UNCHANGED decls
       ELSE /\ decls' = [decls EXCEPT ![t].is_qr_expired = TRUE,
                                      ![t].admin_approval_status = "expired"]
            /\ last' = Response("expire_qr", TRUE, "")

\* the rows check_and_expire_old_qrs selects
SweepSelects(ds, d) ==
    /\ ds[d].qr_expires_at < now
    /\ ds[d].is_qr_expired = FALSE
    /\ ds[d].is_qr_used = FALSE

\* RecyclingDeclarationService.check_and_expire_old_qrs; answers the count
check_and_expire_old_qrs ==
    LET hit == {d \in 1..Len(decls) : SweepSelects(decls, d)}
    IN  /\ decls' = [d \in 1..Len(decls) |->
                        IF d \in hit
                        THEN [decls[d] EXCEPT !.is_qr_expired = TRUE,
                                              !.admin_approval_status = "expired"]
                        ELSE decls[d]]
        /\ last' = Response("check_and_expire_old_qrs", TRUE, "")
        /\ UNCHANGED <<elsewhere, dbCaseSensitive, dbRepeatableRead, now, users, appeals,
                       penaltyLog, credited, reqs>>

Decisions == {"approve", "reject", "maybe"}

\* decide_fraud_appeal, decision 'approve': the citizen is vindicated
DecideApprove(a, admin_wallet) ==
    LET d == appeals[a].declaration_id
        reward_amount == decls[d].total_reward_amount
        k == FindUser(users, normalize_wallet_address(appeals[a].citizen_wallet))
        restored == IF k # NoKey /\ users[k].recycling_fraud_warnings_remaining < WarningCap
                    THEN [users EXCEPT ![k].recycling_fraud_warnings_remaining = @ + 1]
                    ELSE users
        pays == reward_amount > 0 /\ k # NoKey
    IN  /\ appeals' = [appeals EXCEPT ![a].status = "approved",
                                      ![a].admin_wallet = admin_wallet]
        /\ decls' = [decls EXCEPT ![d].admin_approval_status = "approved",
                                  ![d].is_fraud = FALSE]
        /\ users' = IF pays THEN Credit(restored, k, reward_amount) ELSE restored
        /\ credited' = IF pays THEN [credited EXCEPT ![d] = @ + 1] ELSE credited
        /\ UNCHANGED penaltyLog

\* the reject branch had it no "> 0" test at line 307
DecideReject_unfloored(a, admin_wallet) ==
    LET w == normalize_wallet_address(appeals[a].citizen_wallet)
        k0 == FindUser(users, w)
        k == IF k0 = NoKey THEN w ELSE k0
        found == IF k0 = NoKey THEN [users EXCEPT ![w] = NewUser] ELSE users
        lowered == [found EXCEPT ![k].recycling_fraud_warnings_remaining = @ - 1]
        remaining_warnings == lowered[k].recycling_fraud_warnings_remaining
        is_blacklisted == remaining_warnings <= 0
    IN  /\ appeals' = [appeals EXCEPT ![a].status = "rejected",
                                      ![a].admin_wallet = admin_wallet]
        /\ users' = IF is_blacklisted
                    THEN [lowered EXCEPT ![k].is_recycling_blacklisted = TRUE]
                    ELSE lowered
        /\ penaltyLog' = Append(penaltyLog,
              IF is_blacklisted
              THEN [fn |-> "full_slash_user",
                    wallet |-> appeals[a].citizen_wallet]
              ELSE [fn |-> "penalize_user_deposit",
                    wallet |-> appeals[a].citizen_wallet])
        /\ UNCHANGED <<decls, credited>>

\* decide_fraud_appeal, decision 'reject': the fraud is confirmed
DecideReject(a, admin_wallet) ==
    LET w == normalize_wallet_address(appeals[a].citizen_wallet)
        k0 == FindUser(users, w)
        k == IF k0 = NoKey THEN w ELSE k0
        found == IF k0 = NoKey THEN [users EXCEPT ![w] = NewUser] ELSE users
        lowered == IF found[k].recycling_fraud_warnings_remaining > 0
                   THEN [found EXCEPT ![k].recycling_fraud_warnings_remaining = @ - 1]
                   ELSE found
        remaining_warnings == lowered[k].recycling_fraud_warnings_remaining
        is_blacklisted == remaining_warnings <= 0
    IN  /\ appeals' = [appeals EXCEPT ![a].status = "rejected",
                                      ![a].admin_wallet = admin_wallet]
        /\ users' = IF is_blacklisted
                    THEN [lowered EXCEPT ![k].is_recycling_blacklisted = TRUE]
                    ELSE lowered
        /\ penaltyLog' = Append(penaltyLog,
              IF is_blacklisted
              THEN [fn |-> "full_slash_user",
                    wallet |-> appeals[a].citizen_wallet]
              ELSE [fn |-> "penalize_user_deposit",
                    wallet |-> appeals[a].citizen_wallet])
        /\ UNCHANGED <<decls, credited>>

\* decide_fraud_appeal had it no status test at line 233
decide_fraud_appeal_untested(a, decision, admin_wallet) ==
    /\ UNCHANGED <<elsewhere, dbCaseSensitive, dbRepeatableRead, now, reqs>>
    /\ IF decision \notin {"approve", "reject"}
       THEN /\ last' = Response("decide_fraud_appeal", FALSE, "validation")
            /\ UNCHANGED <<users, decls, appeals, penaltyLog, credited>>
       ELSE IF a > Len(appeals)
       THEN /\ last' = Response("decide_fraud_appeal", FALSE, "not_found")
            /\ UNCHANGED <<users, decls, appeals, penaltyLog, credited>>
       ELSE /\ IF decision = "approve"
               THEN DecideApprove(a, admin_wallet)
               ELSE DecideReject(a, admin_wallet)
            /\ last' = Response("decide_fraud_appeal", TRUE, "")

\* POST /api/admin/appeals/<id>/decide
decide_fraud_appeal(a, decision, admin_wallet) ==
    /\ UNCHANGED <<elsewhere, dbCaseSensitive, dbRepeatableRead, now, reqs>>
    /\ IF decision \notin {"approve", "reject"}
       THEN /\ last' = Response("decide_fraud_appeal", FALSE, "validation")
            /\ UNCHANGED <<users, decls, appeals, penaltyLog, credited>>
       ELSE IF a > Len(appeals)
       THEN /\ last' = Response("decide_fraud_appeal", FALSE, "not_found")
            /\ UNCHANGED <<users, decls, appeals, penaltyLog, credited>>
       ELSE IF appeals[a].status # "pending"
       THEN /\ last' = Response("decide_fraud_appeal", FALSE, "conflict")
            /\ UNCHANGED <<users, decls, appeals, penaltyLog, credited>>
       ELSE /\ IF decision = "approve"
               THEN DecideApprove(a, admin_wallet)
               ELSE DecideReject(a, admin_wallet)
            /\ last' = Response("decide_fraud_appeal", TRUE, "")

-----------------------------------------------------------------------------
DoLogin == \E a \in AddrStrings : login(a)

DoCreate ==
    \E a \in AddrStrings, q \in QuantityChoices :
        /\ create_declaration(a, q[1], q[2], q[3], q[4], q[5])
        /\ Len(decls') <= MaxDecls

DoApprove == \E d \in 1..MaxDecls, o \in Operators : approve_declaration(d, o)

DoReject == \E d \in 1..MaxDecls, o \in Operators : reject_declaration(d, o)

DoMarkFraud ==
    \E d \in 1..MaxDecls, o \in Operators, r \in Reasons :
        mark_declaration_fraud(d, o, r)

DoExpireQr == \E t \in 1..MaxDecls : expire_qr(t)

DoSweep == check_and_expire_old_qrs

DoDecide ==
    \E a \in 1..MaxAppeals, dec \in Decisions, adm \in Admins :
        decide_fraud_appeal(a, dec, adm)

Next ==
    \/ Tick
    \/ DoLogin
    \/ DoCreate
    \/ DoApprove
    \/ DoReject
    \/ DoMarkFraud
    \/ DoExpireQr
    \/ DoSweep
    \/ DoDecide

Spec == Init /\ [][Next]_vars

-----------------------------------------------------------------------------
(* The fraud path alone: a wallet logs in and declares, staff mark         *)
(* declarations as fraud, the admin decides the appeals. With fewer        *)
(* handlers there is room for a second declaration.                        *)

InitFraud ==
    /\ dbCaseSensitive \in BOOLEAN
    /\ dbRepeatableRead = FALSE
    /\ now = 0
    /\ users = [a \in UserStrings |-> NoRow]
    /\ decls = <<>>
    /\ appeals = <<>>
    /\ penaltyLog = <<>>
    /\ credited = [d \in 1..MaxFraudDecls |-> 0]
    /\ reqs = [c \in Clients |-> Idle]
    /\ last = Response("none", TRUE, "")
    /\ minted = [w \in Wallets |-> 0]
    /\ qrTokens = <<>>
    /\ rewardCalls = <<>>
    /\ NoWater
    /\ cronDue = FALSE

FraudCreate ==
    \E a \in AddrStrings, q \in QuantityChoices :
        /\ create_declaration(a, q[1], q[2], q[3], q[4], q[5])
        /\ Len(decls') <= MaxFraudDecls

FraudMark ==
    \E d \in 1..MaxFraudDecls, o \in Operators, r \in Reasons :
        mark_declaration_fraud(d, o, r)

NextFraud ==
    \/ DoLogin
    \/ FraudCreate
    \/ FraudMark
    \/ DoDecide

SpecFraud == InitFraud /\ [][NextFraud]_vars

-----------------------------------------------------------------------------
(* Concurrent requests. get_db() opens one session per request with       *)
(* autoflush off: a request SELECTs rows, changes the loaded objects in    *)
(* memory and writes them as UPDATEs when it commits. No row is locked     *)
(* and no version is checked between the SELECT and the COMMIT.            *)

\* the users table a request reads: under REPEATABLE READ the snapshot of
\* its first SELECT, under READ COMMITTED the committed rows of the moment
UsersSeenBy(c) == IF dbRepeatableRead THEN reqs[c].snap ELSE users

\* approve_declaration, lines 168-181: SELECT the declaration, test it
ApproveBegin(c, d, admin_wallet) ==
    /\ reqs[c].pc = "idle"
    /\ reqs' = [reqs EXCEPT ![c] =
          [pc |-> IF d <= Len(decls) /\ decls[d].admin_approval_status = "pending"
                  THEN "approve_user" ELSE "done",
           op |-> "approve_declaration",
           d |-> d,
           admin_wallet |-> admin_wallet,
           seen |-> IF d <= Len(decls) THEN decls[d].admin_approval_status
                    ELSE "absent",
           snap |-> IF dbRepeatableRead THEN users ELSE <<>>,
           user_key |-> NoKey,
           new_balance |-> 0,
           success |-> FALSE]]
    /\ UNCHANGED <<elsewhere, dbCaseSensitive, dbRepeatableRead, now, users, decls, appeals,
                   penaltyLog, credited, last>>

\* approve_declaration, lines 184-187: SELECT the owner, compute the balance
ApproveReadUser(c) ==
    /\ reqs[c].pc = "approve_user"
    /\ LET seen == UsersSeenBy(c)
           k == FindUser(seen, decls[reqs[c].d].wallet_address)
       IN  reqs' = [reqs EXCEPT
                      ![c].pc = "approve_commit",
                      ![c].user_key = k,
                      ![c].new_balance =
                          IF k = NoKey THEN 0
                          ELSE seen[k].pending_reward_balance
                               + decls[reqs[c].d].total_reward_amount]
    /\ UNCHANGED <<elsewhere, dbCaseSensitive, dbRepeatableRead, now, users, decls, appeals,
                   penaltyLog, credited, last>>

\* approve_declaration, lines 190-200: flush the UPDATEs, commit, answer
ApproveCommit(c) ==
    /\ reqs[c].pc = "approve_commit"
    /\ LET d == reqs[c].d
           k == reqs[c].user_key
       IN  /\ decls' = [decls EXCEPT ![d].admin_approval_status = "approved",
                                     ![d].admin_approved_by = reqs[c].admin_wallet,
                                     ![d].is_qr_used = TRUE]
           /\ users' = IF k = NoKey THEN users
                       ELSE [users EXCEPT ![k].pending_reward_balance =
                                             reqs[c].new_balance]
           /\ credited' = IF k = NoKey THEN credited
                          ELSE [credited EXCEPT ![d] = @ + 1]
    /\ reqs' = [reqs EXCEPT ![c].pc = "done", ![c].success = TRUE]
    /\ last' = Response("approve_declaration", TRUE, "")
    /\ UNCHANGED <<elsewhere, dbCaseSensitive, dbRepeatableRead, now, appeals, penaltyLog>>

\* mark_fraud, lines 205-217: SELECT the declaration, change it in memory
MarkBegin(c, d, admin_wallet) ==
    /\ reqs[c].pc = "idle"
    /\ reqs' = [reqs EXCEPT ![c] =
          [pc |-> IF d <= Len(decls) THEN "mark_commit" ELSE "done",
           op |-> "mark_fraud",
           d |-> d,
           admin_wallet |-> admin_wallet,
           seen |-> IF d <= Len(decls) THEN decls[d].admin_approval_status
                    ELSE "absent",
           snap |-> <<>>,
           user_key |-> NoKey,
           new_balance |-> 0,
           success |-> FALSE]]
    /\ UNCHANGED <<elsewhere, dbCaseSensitive, dbRepeatableRead, now, users, decls, appeals,
                   penaltyLog, credited, last>>

\* mark_fraud, lines 223-231: flush the UPDATE, commit, answer
MarkCommit(c) ==
    /\ reqs[c].pc = "mark_commit"
    /\ decls' = mark_fraud(decls, reqs[c].d, reqs[c].admin_wallet, "")
    /\ reqs' = [reqs EXCEPT ![c].pc = "mark_appeal", ![c].success = TRUE]
    /\ last' = Response("mark_fraud", TRUE, "")
    /\ UNCHANGED <<elsewhere, dbCaseSensitive, dbRepeatableRead, now, users, appeals,
                   penaltyLog, credited>>

\* mark_declaration_fraud, lines 986-1025: the appeal, in a second transaction
MarkAppeal(c) ==
    /\ reqs[c].pc = "mark_appeal"
    /\ Len(appeals) < MaxAppeals
    /\ appeals' = Append(appeals, NewAppeal(reqs[c].d, reqs[c].admin_wallet))
    /\ reqs' = [reqs EXCEPT ![c].pc = "done"]
    /\ UNCHANGED <<elsewhere, dbCaseSensitive, dbRepeatableRead, now, users, decls,
                   penaltyLog, credited, last>>

InitConc ==
    /\ dbCaseSensitive \in BOOLEAN
    /\ dbRepeatableRead \in BOOLEAN
    /\ now = 0
    /\ users = [a \in UserStrings |-> NoRow]
    /\ decls = <<>>
    /\ appeals = <<>>
    /\ penaltyLog = <<>>
    /\ credited = [d \in 1..MaxDecls |-> 0]
    /\ reqs = [c \in Clients |-> Idle]
    /\ last = Response("none", TRUE, "")
    /\ minted = [w \in Wallets |-> 0]
    /\ qrTokens = <<>>
    /\ rewardCalls = <<>>
    /\ NoWater
    /\ cronDue = FALSE

ConcApproveBegin ==
    \E c \in Clients, d \in 1..MaxDecls, o \in Operators : ApproveBegin(c, d, o)

ConcApproveReadUser == \E c \in Clients : ApproveReadUser(c)

ConcApproveCommit == \E c \in Clients : ApproveCommit(c)

ConcMarkBegin ==
    \E c \in Clients, d \in 1..MaxDecls, o \in Operators : MarkBegin(c, d, o)

ConcMarkCommit == \E c \in Clients : MarkCommit(c)

ConcMarkAppeal == \E c \in Clients : MarkAppeal(c)

NextConc ==
    \/ DoLogin
    \/ DoCreate
    \/ DoDecide
    \/ ConcApproveBegin
    \/ ConcApproveReadUser
    \/ ConcApproveCommit
    \/ ConcMarkBegin
    \/ ConcMarkCommit
    \/ ConcMarkAppeal

SpecConc == InitConc /\ [][NextConc]_vars

-----------------------------------------------------------------------------
(* POST /api/wallet/claim: read the balance, send the mint transaction,    *)
(* then zero the balance and commit. The three steps of one request are    *)
(* separate actions: other requests run between them, the mint can raise,  *)
(* and the commit can fail (or the process can die before it).             *)

\* the tables and logs that claim_rewards leaves alone
notClaimed == <<dbCaseSensitive, dbRepeatableRead, now, decls, appeals,
                penaltyLog, credited, qrTokens, rewardCalls, waterState, cronDue>>

\* a claim request of client c that has answered
ClaimDone(c, ok, failed_at) ==
    [reqs EXCEPT ![c].pc = "done", ![c].success = ok, ![c].failed_at = failed_at]

\* claim_rewards, lines 52-69: look the user up, read amount_to_claim
ClaimBegin(c, a) ==
    LET normalized_wallet == normalize_wallet_address(a)
        k == FindUser(users, normalized_wallet)
        amount_to_claim == IF k = NoKey THEN 0 ELSE users[k].pending_reward_balance
        go == k # NoKey /\ amount_to_claim > 0
    IN  /\ reqs[c].pc = "idle"
        /\ reqs' = [reqs EXCEPT ![c] =
              [pc |-> IF go THEN "claim_mint" ELSE "done",
               op |-> "claim_rewards",
               wallet |-> a[1],
               user_key |-> k,
               amount_to_claim |-> amount_to_claim,
               success |-> FALSE,
               failed_at |-> IF k = NoKey THEN "not_found"
                             ELSE IF amount_to_claim <= 0 THEN "nothing_to_claim"
                             ELSE "none"]]
        /\ last' = IF go THEN last
                   ELSE Response("claim_rewards", FALSE,
                                 IF k = NoKey THEN "not_found" ELSE "validation")
        /\ UNCHANGED <<notClaimed, users, minted>>

\* claim_rewards had it zeroed the balance whether or not the mint was sent
ClaimMint_zeroing(c, sent) ==
    /\ reqs[c].pc = "claim_mint"
    /\ users' = [users EXCEPT ![reqs[c].user_key].pending_reward_balance = 0]
    /\ IF sent
       THEN /\ minted' = [minted EXCEPT ![reqs[c].wallet] = @ + reqs[c].amount_to_claim]
            /\ reqs' = [reqs EXCEPT ![c].pc = "claim_commit"]
            /\ UNCHANGED last
       ELSE /\ reqs' = ClaimDone(c, FALSE, "mint")
            /\ last' = Response("claim_rewards", FALSE, "blockchain")
            /\ UNCHANGED minted
    /\ UNCHANGED notClaimed

\* claim_rewards, lines 72-119: build, sign and send the mint transaction;
\* sent is FALSE when any of these calls raises (lines 132-134)
ClaimMint(c, sent) ==
    /\ reqs[c].pc = "claim_mint"
    /\ IF sent
       THEN /\ minted' = [minted EXCEPT ![reqs[c].wallet] = @ + reqs[c].amount_to_claim]
            /\ reqs' = [reqs EXCEPT ![c].pc = "claim_commit"]
            /\ UNCHANGED last
       ELSE /\ reqs' = ClaimDone(c, FALSE, "mint")
            /\ last' = Response("claim_rewards", FALSE, "blockchain")
            /\ UNCHANGED minted
    /\ UNCHANGED <<notClaimed, users>>

\* claim_rewards, lines 121-130: zero the balance and commit; committed is
\* FALSE when db.commit() raises or the process dies before it returns
ClaimCommit(c, committed) ==
    /\ reqs[c].pc = "claim_commit"
    /\ IF committed
       THEN /\ users' = [users EXCEPT ![reqs[c].user_key].pending_reward_balance = 0]
            /\ reqs' = ClaimDone(c, TRUE, "none")
            /\ last' = Response("claim_rewards", TRUE, "")
       ELSE /\ reqs' = ClaimDone(c, FALSE, "commit")
            /\ last' = Response("claim_rewards", FALSE, "blockchain")
            /\ UNCHANGED users
    /\ UNCHANGED <<notClaimed, minted>>

DoClaimBegin == \E c \in Clients, a \in AddrStrings : ClaimBegin(c, a)

DoClaimMint == \E c \in Clients, sent \in BOOLEAN : ClaimMint(c, sent)

DoClaimCommit == \E c \in Clients, committed \in BOOLEAN : ClaimCommit(c, committed)

NextClaim ==
    \/ DoLogin
    \/ DoCreate
    \/ DoApprove
    \/ DoClaimBegin
    \/ DoClaimMint
    \/ DoClaimCommit

SpecClaim == Init /\ [][NextClaim]_vars

-----------------------------------------------------------------------------
(* The single-material QR flow: POST /api/recycling/generate-qr hands out  *)
(* a signed token, POST /api/recycling/validate checks a presented token   *)
(* and calls the reward contract. The backend stores neither.              *)

QrMaterials == {"glass", "paper", "metal"}
WasteTypes == {"plastic", "glass", "metal", "paper", "electronic"}

\* the tables the QR flow leaves alone
notQr == <<dbCaseSensitive, dbRepeatableRead, now, users, decls, appeals,
           penaltyLog, credited, reqs, minted, waterState, cronDue>>

\* the SHA-256 over the payload and QR_SECRET_KEY, as the payload it binds
TokenHash(material_type, amount, wallet_address, expires_at) ==
    <<material_type, amount, wallet_address, expires_at>>

\* qr_service.generate_qr_token behind generate_qr; amount in kg
generate_qr(material_type, amount, a) ==
    LET wallet_address == normalize_wallet_address(a)
        expires_at == now + QR_TOKEN_EXPIRY_HOURS
    IN  /\ UNCHANGED notQr
        /\ IF material_type \notin QrMaterials \/ amount <= 0 \/ amount > MaxQrAmount
           THEN /\ last' = Response("generate_qr", FALSE, "validation")
                /\ UNCHANGED <<qrTokens, rewardCalls>>
           ELSE /\ qrTokens' = Append(qrTokens,
                      [material_type |-> material_type,
                       amount |-> amount,
                       wallet_address |-> wallet_address,
                       expires_at |-> expires_at,
                       hash |-> TokenHash(material_type, amount, wallet_address,
                                          expires_at)])
                /\ rewardCalls' = Append(rewardCalls, 0)
                /\ last' = Response("generate_qr", TRUE, "")

\* qr_service.verify_qr_token: "" when the token is good, else the error
verify_qr_token(token_data) ==
    IF now > token_data.expires_at THEN "expired"
    ELSE IF token_data.hash # TokenHash(token_data.material_type, token_data.amount,
                                        token_data.wallet_address, token_data.expires_at)
    THEN "invalid_hash"
    ELSE IF token_data.material_type \notin QrMaterials THEN "invalid_material"
    ELSE IF token_data.amount <= 0 \/ token_data.amount > MaxQrAmount
    THEN "invalid_amount"
    ELSE ""

\* recycling_validation.validate_recycling_submission: "" when valid
validate_recycling_submission(material_type, qr_token, wallet_address) ==
    IF material_type \notin WasteTypes THEN "invalid_waste_type"
    ELSE IF verify_qr_token(qr_token) # "" THEN verify_qr_token(qr_token)
    ELSE IF Lower(qr_token.wallet_address) # Lower(wallet_address)
    THEN "wallet_mismatch"
    ELSE IF qr_token.material_type # material_type THEN "material_mismatch"
    ELSE IF qr_token.amount <= 0 THEN "invalid_amount"
    ELSE IF qr_token.amount > MaxQrAmount THEN "invalid_amount"
    ELSE ""

\* POST /api/recycling/validate with token t as it was handed out, or with
\* its amount altered; chain_ok is FALSE when reward_recycling raises
validate_recycling(t, altered, material_type, a, chain_ok) ==
    LET qr_token == IF altered
                    THEN [qrTokens[t] EXCEPT !.amount = @ + 1]
                    ELSE qrTokens[t]
        wallet_address == normalize_wallet_address(a)
        error == validate_recycling_submission(material_type, qr_token,
                                               wallet_address)
    IN  /\ t <= Len(qrTokens)
        /\ UNCHANGED <<notQr, qrTokens>>
        /\ IF error # ""
           THEN /\ last' = Response("validate_recycling", FALSE, error)
                /\ UNCHANGED rewardCalls
           ELSE /\ rewardCalls' = [rewardCalls EXCEPT ![t] = @ + 1]
                /\ last' = Response("validate_recycling", TRUE,
                                    IF chain_ok THEN "" ELSE "blockchain_fail")

DoGenerateQr ==
    \E m \in {"glass", "metal", "plastic"}, amount \in {5, MaxQrAmount + 1},
       a \in AddrStrings :
        /\ generate_qr(m, amount, a)
        /\ Len(qrTokens') <= MaxTokens

DoValidateRecycling ==
    \E t \in 1..MaxTokens, altered \in BOOLEAN, m \in {"glass", "metal"},
       a \in AddrStrings, chain_ok \in BOOLEAN :
        /\ validate_recycling(t, altered, m, a, chain_ok)
        /\ \A u \in 1..Len(rewardCalls') : rewardCalls'[u] <= MaxUses

NextQr ==
    \/ Tick
    \/ DoGenerateQr
    \/ DoValidateRecycling

SpecQr == Init /\ [][NextQr]_vars

-----------------------------------------------------------------------------
(* The water-meter routes. POST /api/water/validate runs a three-scenario  *)
(* demonstration: ai/ocr.py keeps a counter in demo_state.json and answers *)
(* with scenario 1 (normal), 2 (low consumption) and 3 (meter reversed) in *)
(* turn. POST /api/water/fraud-evaluate of routes/water_validation.py      *)
(* turns a score into an action; app.py does not register that blueprint.  *)

DemoReward == 100
CriticalScore == 70

\* the aiScore values a caller of fraud-evaluate sends: one per risk level
ScoreChoices == {20, 40, 60, 80}

\* the columns of the water rows that the water routes leave alone
notWater == <<dbCaseSensitive, dbRepeatableRead, now, decls, appeals, credited,
              reqs, minted, qrTokens, rewardCalls, readings, inspections,
              fraudRecords, deposits, cronDue, signalCall>>

\* ai.ocr.read_water_meter: the index it reads in the scenario of state s
OcrIndex(s) == IF s = 0 THEN 15000 ELSE IF s = 1 THEN 2114 ELSE 3000

\* the reward block of scenarios 1 and 2: find or create the users row of
\* the lower-cased address and add the reward. The address is longer than
\* the wallet_address column; "stored" says whether the database took it.
DemoCredit(stored) ==
    LET k0 == FindUser(users, DemoKey)
        k == IF k0 = NoKey THEN DemoKey ELSE k0
        found == IF k0 = NoKey THEN [users EXCEPT ![DemoKey] = NewUser] ELSE users
    IN  IF stored
        THEN [found EXCEPT ![k].pending_reward_balance = @ + DemoReward]
        ELSE users

\* validate_water_meter had scenario 2 no user_confirmed test at line 261
validate_water_meter_unasked(user_confirmed, stored) ==
    LET state == IF user_confirmed THEN 1 ELSE demoState
        current_index == OcrIndex(state)
    IN  /\ demoState' = (state + 1) % 3
        /\ UNCHANGED notWater
        /\ IF state = 0 \/ state = 1
           THEN /\ readingCalls' = Append(readingCalls,
                       [wallet |-> DemoKey, reading_index |-> current_index])
                /\ users' = DemoCredit(stored)
                /\ last' = Response("validate_water_meter", TRUE, "")
                /\ UNCHANGED penaltyLog
           ELSE /\ penaltyLog' = Append(penaltyLog,
                       [fn |-> "submit_fraud_evidence", wallet |-> DemoKey])
                /\ last' = Response("validate_water_meter", FALSE, "anomaly_detected")
                /\ UNCHANGED <<readingCalls, users>>

\* POST /api/water/validate
validate_water_meter(user_confirmed, stored) ==
    LET state == IF user_confirmed THEN 1 ELSE demoState
        current_index == OcrIndex(state)
    IN  /\ demoState' = (state + 1) % 3
        /\ UNCHANGED notWater
        /\ IF state = 0
           THEN /\ readingCalls' = Append(readingCalls,
                       [wallet |-> DemoKey, reading_index |-> current_index])
                /\ users' = DemoCredit(stored)
                /\ last' = Response("validate_water_meter", TRUE, "")
                /\ UNCHANGED penaltyLog
           ELSE IF state = 1
           THEN IF user_confirmed
                THEN /\ readingCalls' = Append(readingCalls,
                            [wallet |-> DemoKey, reading_index |-> current_index])
                     /\ users' = DemoCredit(stored)
                     /\ last' = Response("validate_water_meter", TRUE, "")
                     /\ UNCHANGED penaltyLog
                ELSE /\ last' = Response("validate_water_meter", FALSE,
                                         "consumption_drop_warning")
                     /\ UNCHANGED <<readingCalls, users, penaltyLog>>
           ELSE /\ penaltyLog' = Append(penaltyLog,
                       [fn |-> "submit_fraud_evidence", wallet |-> DemoKey])
                /\ last' = Response("validate_water_meter", FALSE, "anomaly_detected")
                /\ UNCHANGED <<readingCalls, users>>

\* POST /api/water/fraud-evaluate with a pre-calculated aiScore
fraud_evaluate(wallet, fraud_score) ==
    /\ UNCHANGED <<notWater, demoState, readingCalls, users>>
    /\ IF fraud_score >= CriticalScore
       THEN /\ penaltyLog' = Append(penaltyLog,
                   [fn |-> "submit_fraud_evidence", wallet |-> wallet])
            /\ last' = Response("fraud_evaluate", TRUE, "penalty_applied")
       ELSE /\ UNCHANGED penaltyLog
            /\ last' = Response("fraud_evaluate", TRUE,
                          IF fraud_score >= 50 THEN "under_review"
                          ELSE IF fraud_score >= 30 THEN "confirmation_needed"
                          ELSE "none")

DoValidateWater ==
    \E user_confirmed \in BOOLEAN, stored \in BOOLEAN :
        /\ validate_water_meter(user_confirmed, stored)
        /\ Len(readingCalls') <= MaxSubmits
        /\ Len(penaltyLog') <= MaxEvidence

DoFraudEvaluate ==
    \E a \in AddrStrings, s \in ScoreChoices :
        /\ fraud_evaluate(a, s)
        /\ Len(penaltyLog') <= MaxEvidence

NextWater ==
    \/ DoValidateWater
    \/ DoFraudEvaluate

SpecWater == Init /\ [][NextWater]_vars

-----------------------------------------------------------------------------
(* Physical inspections: POST /api/inspection/schedule and                 *)
(* POST /api/inspection/complete call the module-level InspectionService,  *)
(* which is constructed without a blockchain_service. The reported reading *)
(* an inspection is compared with is the newest water_meter_readings row,  *)
(* written by POST /api/water/manual-entry.                                *)

UnitPrice == 10
UNDERPAYMENT_INTEREST_PERCENT == 5
TolerancePercent == 5
DepositAmount == 100

\* current_index values of manual-entry: a negative one and the 2114 m3 of
\* the low-consumption scenario
ReadingChoices == {-1, 2114}

\* actual_reading values an inspector sends: one within 5 % of 2114, and
\* the 3120 m3 of the meter-reversed scenario
ActualChoices == {2200, 3120}

\* what the inspection routes leave alone
notInspection == <<dbCaseSensitive, dbRepeatableRead, now, decls, appeals, penaltyLog,
                   credited, minted, qrTokens, rewardCalls, demoState, readingCalls,
                   deposits, cronDue, signalCall>>

\* column comparison under the collation of the database
SameString(x, y) == IF dbCaseSensitive THEN x = y ELSE x[1] = y[1]

\* the ids of the pending inspections of wallet string w
PendingInspectionsOf(w) ==
    {n \in DOMAIN inspections :
        /\ SameString(inspections[n].wallet_address, w)
        /\ inspections[n].status = "pending"}

\* ...order_by(desc(created_at)).first().reading_index, 0 without a row
ReportedReading(w) ==
    LET mine == {r \in DOMAIN readings : SameString(readings[r].wallet_address, w)}
    IN  IF mine = {} THEN 0
        ELSE readings[CHOOSE r \in mine : \A q \in mine : q <= r].reading_index

\* validate_inspection_result, lines 198-206: abs(diff_percent) <=
\* tolerance_percent, in integers; diff_percent is 100 or 0 when nothing
\* was reported
WithinTolerance(reported_reading, actual_reading) ==
    LET difference == actual_reading - reported_reading
        magnitude == IF difference >= 0 THEN difference ELSE -difference
    IN  IF reported_reading > 0
        THEN magnitude * 100 <= TolerancePercent * reported_reading
        ELSE difference <= 0

\* PeriodicInspectionManager.validate_inspection_result(...)["fraud_detected"]
validate_inspection_result(reported_reading, actual_reading) ==
    /\ ~WithinTolerance(reported_reading, actual_reading)
    /\ IF reported_reading > 0
       THEN (actual_reading - reported_reading) * 100
                > TolerancePercent * reported_reading
       ELSE actual_reading - reported_reading > 0

\* InspectionService._calculate_interest, in hundredths of a lira
calculate_interest(amount, months_late) ==
    IF amount <= 0 \/ months_late <= 0 THEN 0
    ELSE amount * UNDERPAYMENT_INTEREST_PERCENT * months_late

\* POST /api/water/manual-entry
manual_water_entry(a, current_index) ==
    /\ UNCHANGED <<notInspection, reqs, inspections, fraudRecords>>
    /\ IF current_index < 0
       THEN /\ last' = Response("manual_water_entry", FALSE, "validation")
            /\ UNCHANGED <<users, readings>>
       ELSE LET wallet_address == normalize_wallet_address(a)
                k == FindUser(users, wallet_address)
            IN  /\ users' = IF k = NoKey
                            THEN [users EXCEPT ![wallet_address] = NewUser]
                            ELSE users
                /\ readings' = Append(readings,
                       [wallet_address |-> wallet_address,
                        reading_index |-> current_index])
                /\ last' = Response("manual_water_entry", TRUE, "")

\* schedule_inspection, lines 49-62: SELECT a pending inspection of the wallet
ScheduleBegin(c, a) ==
    LET user_address == normalize_wallet_address(a)
    IN  /\ reqs[c].pc = "idle"
        /\ UNCHANGED <<notInspection, users, readings, inspections, fraudRecords>>
        /\ IF PendingInspectionsOf(user_address) # {}
           THEN /\ last' = Response("schedule_inspection", FALSE, "existing")
                /\ UNCHANGED reqs
           ELSE /\ reqs' = [reqs EXCEPT ![c] =
                       [pc |-> "schedule_insert",
                        op |-> "schedule_inspection",
                        user_address |-> user_address]]
                /\ UNCHANGED last

\* schedule_inspection, lines 64-88: INSERT the inspection, commit, answer
ScheduleCommit(c) ==
    /\ reqs[c].pc = "schedule_insert"
    /\ inspections' = Append(inspections,
           [wallet_address |-> reqs[c].user_address,
            status |-> "pending",
            actual_reading |-> 0,
            inspector_wallet |-> NoOne])
    /\ reqs' = [reqs EXCEPT ![c] = Idle]
    /\ last' = Response("schedule_inspection", TRUE, "")
    /\ UNCHANGED <<notInspection, users, readings, fraudRecords>>

\* InspectionService.complete_inspection, as one transaction
complete_inspection(inspection_id, inspector_wallet, actual_reading, fraud_found) ==
    /\ UNCHANGED <<notInspection, users, readings, reqs>>
    /\ IF inspection_id > Len(inspections)
       THEN /\ last' = Response("complete_inspection", FALSE, "not_found")
            /\ UNCHANGED <<inspections, fraudRecords>>
       ELSE IF inspections[inspection_id].status = "completed"
       THEN /\ last' = Response("complete_inspection", FALSE, "conflict")
            /\ UNCHANGED <<inspections, fraudRecords>>
       ELSE LET user_address == inspections[inspection_id].wallet_address
                reported_reading == ReportedReading(user_address)
                underpayment == IF actual_reading > reported_reading
                                THEN (actual_reading - reported_reading) * UnitPrice
                                ELSE 0
                interest == calculate_interest(underpayment, 1)
                penalty_amount == deposits[user_address[1]]
            IN  /\ inspections' = [inspections EXCEPT
                       ![inspection_id].inspector_wallet = inspector_wallet,
                       ![inspection_id].actual_reading = actual_reading,
                       ![inspection_id].status =
                           IF fraud_found THEN "fraud_found" ELSE "completed"]
                /\ fraudRecords' =
                       IF fraud_found
                       THEN Append(fraudRecords,
                               [wallet_address |-> user_address,
                                penalty_amount |-> penalty_amount,
                                original_reading |-> reported_reading,
                                actual_reading |-> actual_reading,
                                underpayment_amount |-> underpayment,
                                interest_charged |-> interest,
                                detected_by |-> inspector_wallet])
                       ELSE fraudRecords
                /\ last' = Response("complete_inspection", TRUE, "")

InitInsp ==
    /\ dbCaseSensitive \in BOOLEAN
    /\ dbRepeatableRead = FALSE
    /\ now = 0
    /\ users = [a \in UserStrings |-> NoRow]
    /\ decls = <<>>
    /\ appeals = <<>>
    /\ penaltyLog = <<>>
    /\ credited = [d \in 1..MaxDecls |-> 0]
    /\ reqs = [c \in Clients |-> Idle]
    /\ last = Response("none", TRUE, "")
    /\ minted = [w \in Wallets |-> 0]
    /\ qrTokens = <<>>
    /\ rewardCalls = <<>>
    /\ demoState = 0
    /\ readingCalls = <<>>
    /\ readings = <<>>
    /\ inspections = <<>>
    /\ fraudRecords = <<>>
    /\ deposits \in [Wallets -> {0, DepositAmount}]
    /\ cronDue = FALSE
    /\ signalCall = NoCall

DoManualEntry ==
    \E a \in AddrStrings, current_index \in ReadingChoices :
        /\ manual_water_entry(a, current_index)
        /\ Len(readings') <= MaxReadings

DoScheduleBegin == \E c \in Clients, a \in AddrStrings : ScheduleBegin(c, a)

DoScheduleCommit ==
    \E c \in Clients :
        /\ ScheduleCommit(c)
        /\ Len(inspections') <= MaxInspections

DoCompleteInspection ==
    \E n \in 1..MaxInspections, o \in Operators, actual_reading \in ActualChoices,
       fraud_found \in BOOLEAN :
        /\ complete_inspection(n, o, actual_reading, fraud_found)
        /\ Len(fraudRecords') <= MaxFraudRecords

NextInsp ==
    \/ DoManualEntry
    \/ DoScheduleBegin
    \/ DoScheduleCommit
    \/ DoCompleteInspection

SpecInsp == InitInsp /\ [][NextInsp]_vars

-----------------------------------------------------------------------------
(* claim_rewards in its three steps next to approve_declaration, with room *)
(* for a second declaration to be approved while a claim is in flight.     *)

CreditCreate ==
    \E a \in AddrStrings, q \in QuantityChoices :
        /\ create_declaration(a, q[1], q[2], q[3], q[4], q[5])
        /\ Len(decls') <= MaxFraudDecls

CreditApprove ==
    \E d \in 1..MaxFraudDecls, o \in Operators : approve_declaration(d, o)

NextCredit ==
    \/ DoLogin
    \/ CreditCreate
    \/ CreditApprove
    \/ DoClaimBegin
    \/ DoClaimMint
    \/ DoClaimCommit

SpecCredit == InitFraud /\ [][NextCredit]_vars

-----------------------------------------------------------------------------
(* The expiry sweep as a job: check_and_expire_old_qrs reads the clock and *)
(* then issues one UPDATE ... WHERE statement, which the database runs     *)
(* atomically, and returns its row count. Two runs of the job can overlap  *)
(* between the clock read and the statement.                               *)

\* check_and_expire_old_qrs, line 252: now = datetime.utcnow()
SweepBegin(c) ==
    /\ reqs[c].pc = "idle"
    /\ reqs' = [reqs EXCEPT ![c] =
          [pc |-> "sweep_update",
           op |-> "check_and_expire_old_qrs",
           now |-> now,
           expired_count |-> 0]]
    /\ UNCHANGED <<elsewhere, dbCaseSensitive, dbRepeatableRead, now, users, decls, appeals,
                   penaltyLog, credited, last>>

\* the sweep had it no is_qr_expired == False filter at line 255
SweepUpdate_refiltering(c) ==
    LET hit == {d \in 1..Len(decls) :
                   /\ decls[d].qr_expires_at < reqs[c].now
                   /\ decls[d].is_qr_used = FALSE}
    IN  /\ reqs[c].pc = "sweep_update"
        /\ decls' = [d \in 1..Len(decls) |->
                        IF d \in hit
                        THEN [decls[d] EXCEPT !.is_qr_expired = TRUE,
                                              !.admin_approval_status = "expired"]
                        ELSE decls[d]]
        /\ reqs' = [reqs EXCEPT ![c].pc = "done",
                                ![c].expired_count = Cardinality(hit)]
        /\ last' = Response("check_and_expire_old_qrs", TRUE, "")
        /\ UNCHANGED <<elsewhere, dbCaseSensitive, dbRepeatableRead, now, users, appeals,
                       penaltyLog, credited>>

\* check_and_expire_old_qrs, lines 253-266: the UPDATE, the commit and the
\* returned row count
SweepUpdate(c) ==
    LET hit == {d \in 1..Len(decls) :
                   /\ decls[d].qr_expires_at < reqs[c].now
                   /\ decls[d].is_qr_expired = FALSE
                   /\ decls[d].is_qr_used = FALSE}
    IN  /\ reqs[c].pc = "sweep_update"
        /\ decls' = [d \in 1..Len(decls) |->
                        IF d \in hit
                        THEN [decls[d] EXCEPT !.is_qr_expired = TRUE,
                                              !.admin_approval_status = "expired"]
                        ELSE decls[d]]
        /\ reqs' = [reqs EXCEPT ![c].pc = "done",
                                ![c].expired_count = Cardinality(hit)]
        /\ last' = Response("check_and_expire_old_qrs", TRUE, "")
        /\ UNCHANGED <<elsewhere, dbCaseSensitive, dbRepeatableRead, now, users, appeals,
                       penaltyLog, credited>>

DoSweepBegin == \E c \in Clients : SweepBegin(c)

DoSweepUpdate == \E c \in Clients : SweepUpdate(c)

SweepCreate ==
    \E a \in AddrStrings, q \in QuantityChoices :
        /\ create_declaration(a, q[1], q[2], q[3], q[4], q[5])
        /\ Len(decls') <= MaxFraudDecls

SweepApprove ==
    \E d \in 1..MaxFraudDecls, o \in Operators : approve_declaration(d, o)

NextSweep ==
    \/ Tick
    \/ SweepCreate
    \/ SweepApprove
    \/ DoSweepBegin
    \/ DoSweepUpdate

SpecSweep == InitFraud /\ [][NextSweep]_vars

-----------------------------------------------------------------------------
(* The running system: the request handlers of the declaration routes and  *)
(* the one job that app.py registers with APScheduler, do_cleanup, which   *)
(* deletes old files from the upload folder every day at 03:00. Nothing    *)
(* calls expire_qr or check_and_expire_old_qrs. The clock and the cron     *)
(* trigger cannot be held back; requests come when somebody sends them.    *)

\* what neither the scheduler nor the listing touches
notScheduler == <<dbCaseSensitive, dbRepeatableRead, now, users, decls, appeals,
                  penaltyLog, credited, reqs, minted, qrTokens, rewardCalls,
                  waterState>>

\* the ids get_pending_declarations returns
PendingListed ==
    {d \in 1..Len(decls) :
        /\ decls[d].admin_approval_status = "pending"
        /\ decls[d].is_qr_expired = FALSE}

\* GET /api/recycling/declarations/pending
get_pending_declarations ==
    /\ last' = [op |-> "get_pending_declarations", success |-> TRUE, error |-> "",
                ids |-> PendingListed]
    /\ UNCHANGED <<notScheduler, cronDue>>

\* the cron trigger of @scheduler.task('cron', id='do_cleanup', hour=3)
CronFire ==
    /\ ~cronDue
    /\ cronDue' = TRUE
    /\ UNCHANGED <<notScheduler, last>>

\* scheduled_cleanup: cleanup_old_files(UPLOAD_FOLDER, max_age_days=180)
scheduled_cleanup ==
    /\ cronDue
    /\ cronDue' = FALSE
    /\ UNCHANGED <<notScheduler, last>>

NextLive ==
    \/ Tick
    \/ DoLogin
    \/ DoCreate
    \/ DoApprove
    \/ DoReject
    \/ DoMarkFraud
    \/ get_pending_declarations
    \/ CronFire
    \/ scheduled_cleanup

SpecLive ==
    /\ Init
    /\ [][NextLive]_vars
    /\ WF_vars(Tick)
    /\ WF_vars(CronFire)
    /\ WF_vars(scheduled_cleanup)

-----------------------------------------------------------------------------
(* Every route that touches a declaration or a balance, together: the      *)
(* declaration routes, the expiry sweep, the appeal decision and           *)
(* claim_rewards.                                                          *)

MaxFrameAppeals == 1

FrameMarkFraud ==
    \E d \in 1..MaxDecls, o \in Operators, r \in Reasons :
        /\ mark_declaration_fraud(d, o, r)
        /\ Len(appeals') <= MaxFrameAppeals

\* one client sends the claim_rewards requests
FrameClaimBegin == \E a \in AddrStrings : ClaimBegin("c1", a)

FrameClaimMint == \E sent \in BOOLEAN : ClaimMint("c1", sent)

FrameClaimCommit == \E committed \in BOOLEAN : ClaimCommit("c1", committed)

NextFrame ==
    \/ Tick
    \/ DoLogin
    \/ DoCreate
    \/ DoApprove
    \/ DoReject
    \/ FrameMarkFraud
    \/ DoSweep
    \/ DoDecide
    \/ FrameClaimBegin
    \/ FrameClaimMint
    \/ FrameClaimCommit

SpecFrame == InitFraud /\ [][NextFrame]_vars

-----------------------------------------------------------------------------
(* mark_declaration_fraud when the second transaction can fail: the fraud  *)
(* mark is committed by the service, then the appeal and the notifications *)
(* are inserted in a session of their own, inside a try block whose        *)
(* handler only logs a warning (lines 1027-1028).                          *)

\* mark_declaration_fraud, lines 979-1028: inserted is FALSE when the session,
\* the insert or db.commit() raises
MarkAppealInsert(c, inserted) ==
    IF inserted
    THEN MarkAppeal(c)
    ELSE /\ reqs[c].pc = "mark_appeal"
         /\ reqs' = [reqs EXCEPT ![c].pc = "done"]
         /\ UNCHANGED <<elsewhere, dbCaseSensitive, dbRepeatableRead, now, users,
                        decls, appeals, penaltyLog, credited, last>>

MarkFraudBegin ==
    \E c \in Clients, d \in 1..MaxFraudDecls, o \in Operators : MarkBegin(c, d, o)

MarkFraudCommit == \E c \in Clients : MarkCommit(c)

MarkFraudAppeal == \E c \in Clients, inserted \in BOOLEAN : MarkAppealInsert(c, inserted)

NextMark ==
    \/ DoLogin
    \/ FraudCreate
    \/ MarkFraudBegin
    \/ MarkFraudCommit
    \/ MarkFraudAppeal
    \/ DoDecide

SpecMark == InitFraud /\ [][NextMark]_vars

-----------------------------------------------------------------------------
(* The penalty client, and the reject branch of decide_fraud_appeal in     *)
(* the order of its code: the new appeal and users values are set on the   *)
(* session's objects, then the penalty client is called inside a try       *)
(* block, then db.commit() writes everything. The client call can raise    *)
(* and the commit can fail.                                                *)

MaxPenaltyCalls == 2
PartialPercent == 25

\* decision_id left at its default, None
NoDecision == "none"
DecisionIds == {NoDecision, "decision-1"}

\* BlockchainService.penalize_user_deposit without the guard of line 189
penalize_user_deposit_unguarded(decision_id, chain_ok) ==
    IF chain_ok THEN "sent" ELSE "raised"

\* BlockchainService.penalize_user_deposit: "blocked" is the ValueError of
\* line 191, raised before the try block; chain_ok is FALSE when the key or
\* the contract address is missing or a web3 call raises
penalize_user_deposit(decision_id, chain_ok) ==
    IF decision_id = NoDecision THEN "blocked"
    ELSE IF chain_ok THEN "sent"
    ELSE "raised"

\* BlockchainService.full_slash_user
full_slash_user(chain_ok) == IF chain_ok THEN "sent" ELSE "raised"

\* one call of the penalty client and what became of it
PenaltyCall(fn, wallet, penalty_percent, decision_id, outcome) ==
    [fn |-> fn, wallet |-> wallet, penalty_percent |-> penalty_percent,
     decision_id |-> decision_id, outcome |-> outcome]

\* one call of full_slash_user, which takes the wallet and nothing else
SlashCall(wallet, outcome) ==
    [fn |-> "full_slash_user", wallet |-> wallet, outcome |-> outcome]

\* decide_fraud_appeal with decision 'reject', lines 222-316: load the appeal,
\* set the new values on the appeal and on the users row of the session
RejectBegin(c, a, admin_wallet) ==
    /\ reqs[c].pc = "idle"
    /\ IF a > Len(appeals) \/ appeals[a].status # "pending"
       THEN /\ reqs' = [reqs EXCEPT ![c] =
                  [pc |-> "done", op |-> "decide_fraud_appeal", appeal |-> a,
                   outcome |-> "none", success |-> FALSE]]
            /\ last' = Response("decide_fraud_appeal", FALSE,
                                IF a > Len(appeals) THEN "not_found" ELSE "conflict")
       ELSE LET w == normalize_wallet_address(appeals[a].citizen_wallet)
                k0 == FindUser(users, w)
                k == IF k0 = NoKey THEN w ELSE k0
                user == IF k0 = NoKey THEN NewUser ELSE users[k0]
                remaining_warnings ==
                    IF user.recycling_fraud_warnings_remaining > 0
                    THEN user.recycling_fraud_warnings_remaining - 1
                    ELSE user.recycling_fraud_warnings_remaining
            IN  /\ reqs' = [reqs EXCEPT ![c] =
                      [pc |-> "reject_penalty", op |-> "decide_fraud_appeal",
                       appeal |-> a, admin_wallet |-> admin_wallet,
                       user_key |-> k, creates |-> k0 = NoKey,
                       remaining_warnings |-> remaining_warnings,
                       is_blacklisted |-> remaining_warnings <= 0,
                       outcome |-> "none", success |-> FALSE]]
                /\ UNCHANGED last
    /\ UNCHANGED <<elsewhere, dbCaseSensitive, dbRepeatableRead, now, users, decls,
                   appeals, penaltyLog, credited>>

\* the reject branch had it let the exception of the client leave the handler
RejectPenalty_aborting(c, chain_ok) ==
    LET wallet == appeals[reqs[c].appeal].citizen_wallet
        outcome == IF reqs[c].is_blacklisted
                   THEN full_slash_user(chain_ok)
                   ELSE penalize_user_deposit(NoDecision, chain_ok)
    IN  /\ reqs[c].pc = "reject_penalty"
        /\ penaltyLog' = Append(penaltyLog,
              IF reqs[c].is_blacklisted
              THEN SlashCall(wallet, outcome)
              ELSE PenaltyCall("penalize_user_deposit", wallet, PartialPercent,
                               NoDecision, outcome))
        /\ reqs' = [reqs EXCEPT ![c].pc = IF outcome = "sent" THEN "reject_commit"
                                          ELSE "done",
                                ![c].outcome = outcome]
        /\ last' = IF outcome = "sent" THEN last
                   ELSE Response("decide_fraud_appeal", FALSE, "server")
        /\ UNCHANGED <<elsewhere, dbCaseSensitive, dbRepeatableRead, now, users,
                       decls, appeals, credited>>

\* lines 318-336: full_slash_user for a blacklisted user, otherwise
\* penalize_user_deposit(wallet, 25, reason) with no decision_id; whatever the
\* client raises is logged and dropped
RejectPenalty(c, chain_ok) ==
    LET wallet == appeals[reqs[c].appeal].citizen_wallet
        outcome == IF reqs[c].is_blacklisted
                   THEN full_slash_user(chain_ok)
                   ELSE penalize_user_deposit(NoDecision, chain_ok)
    IN  /\ reqs[c].pc = "reject_penalty"
        /\ penaltyLog' = Append(penaltyLog,
              IF reqs[c].is_blacklisted
              THEN SlashCall(wallet, outcome)
              ELSE PenaltyCall("penalize_user_deposit", wallet, PartialPercent,
                               NoDecision, outcome))
        /\ reqs' = [reqs EXCEPT ![c].pc = "reject_commit", ![c].outcome = outcome]
        /\ UNCHANGED <<elsewhere, dbCaseSensitive, dbRepeatableRead, now, users,
                       decls, appeals, credited, last>>

\* lines 338-365: the notification, db.commit() and the answer; committed is
\* FALSE when the commit raises (a users row inserted by this request for a
\* wallet that has got one meanwhile breaks the unique index)
RejectCommit(c, committed) ==
    LET a == reqs[c].appeal
        k == reqs[c].user_key
        row == IF users[k] = NoRow THEN NewUser ELSE users[k]
    IN  /\ reqs[c].pc = "reject_commit"
        /\ committed => ~(reqs[c].creates /\ users[k] # NoRow)
        /\ IF committed
           THEN /\ appeals' = [appeals EXCEPT ![a].status = "rejected",
                                              ![a].admin_wallet = reqs[c].admin_wallet]
                /\ users' = [users EXCEPT ![k] =
                      [row EXCEPT
                         !.recycling_fraud_warnings_remaining = reqs[c].remaining_warnings,
                         !.is_recycling_blacklisted =
                             row.is_recycling_blacklisted \/ reqs[c].is_blacklisted]]
                /\ reqs' = [reqs EXCEPT ![c].pc = "done", ![c].success = TRUE]
                /\ last' = Response("decide_fraud_appeal", TRUE, "")
           ELSE /\ reqs' = [reqs EXCEPT ![c].pc = "done"]
                /\ last' = Response("decide_fraud_appeal", FALSE, "server")
                /\ UNCHANGED <<appeals, users>>
        /\ UNCHANGED <<elsewhere, dbCaseSensitive, dbRepeatableRead, now, decls,
                       penaltyLog, credited>>

DoRejectBegin ==
    \E c \in Clients, a \in 1..MaxAppeals, adm \in Admins : RejectBegin(c, a, adm)

DoRejectPenalty ==
    \E c \in Clients, chain_ok \in BOOLEAN :
        /\ RejectPenalty(c, chain_ok)
        /\ Len(penaltyLog') <= MaxPenaltyCalls

DoRejectCommit == \E c \in Clients, committed \in BOOLEAN : RejectCommit(c, committed)

NextReject ==
    \/ DoLogin
    \/ DoCreate
    \/ DoMarkFraud
    \/ DoRejectBegin
    \/ DoRejectPenalty
    \/ DoRejectCommit

SpecReject == Init /\ [][NextReject]_vars

-----------------------------------------------------------------------------
(* The penalty client on its own: penalize_user_deposit and                *)
(* full_slash_user called with every input, by any caller.                 *)

InspectionPercent == 100
PercentChoices == {PartialPercent, InspectionPercent}

\* one call of penalize_user_deposit(user_address, penalty_percent, reason,
\* decision_id)
CallPenalize(user_address, penalty_percent, decision_id, chain_ok) ==
    /\ penaltyLog' = Append(penaltyLog,
          PenaltyCall("penalize_user_deposit", user_address, penalty_percent,
                      decision_id, penalize_user_deposit(decision_id, chain_ok)))
    /\ UNCHANGED <<elsewhere, dbCaseSensitive, dbRepeatableRead, now, users, decls,
                   appeals, credited, reqs, last>>

\* one call of full_slash_user(user_address)
CallFullSlash(user_address, chain_ok) ==
    /\ penaltyLog' = Append(penaltyLog, SlashCall(user_address, full_slash_user(chain_ok)))
    /\ UNCHANGED <<elsewhere, dbCaseSensitive, dbRepeatableRead, now, users, decls,
                   appeals, credited, reqs, last>>

DoCallPenalize ==
    \E a \in AddrStrings, p \in PercentChoices, id \in DecisionIds, chain_ok \in BOOLEAN :
        /\ CallPenalize(a, p, id, chain_ok)
        /\ Len(penaltyLog') <= MaxPenaltyCalls

DoCallFullSlash ==
    \E a \in AddrStrings, chain_ok \in BOOLEAN :
        /\ CallFullSlash(a, chain_ok)
        /\ Len(penaltyLog') <= MaxPenaltyCalls

NextClient ==
    \/ DoCallPenalize
    \/ DoCallFullSlash

SpecClient == Init /\ [][NextClient]_vars

-----------------------------------------------------------------------------
(* The signal functions: UsageAnomalySignalDetector.calculate_signal_score *)
(* and AnomalySignalService.check_consumption_drop, called with every      *)
(* input of a bounded set, one call in each behaviour. Consumptions are    *)
(* whole numbers; the mean and                                             *)
(* the standard deviation, which the code computes as floats, are compared *)
(* through their numerators: with n values of sum S and sum of squares Q,  *)
(* mean = S / n and stdev^2 = (n*Q - S*S) / (n*(n-1)).                     *)

MaxHistory == 4
MaxRows == 3

DROP_THRESHOLD_PERCENT == 50
SPIKE_THRESHOLD_PERCENT == 200
Z_SCORE_THRESHOLD_NUM == 5
Z_SCORE_THRESHOLD_DEN == 2
MIN_HISTORY_MONTHS == 3
MaxPhotoAgeMinutes == 5
DropPoints == 40
SpikePoints == 20
ZScorePoints == 25
TrendPoints == 15
OldPhotoPoints == 10
NoGpsPoints == 5
EditedPoints == 20
MaxScore == 100
CriticalLevel == 70
HighLevel == 50
MediumLevel == 30
HundredPercent == 100
HISTORY_LIMIT == 6
DropDivisor == 2

\* the consumptions and meter indexes the functions are called with
ConsumptionChoices == {0, 2, 4, 8, 10, 12}
RowConsumptionChoices == {0, 10, 20}
RowIndexChoices == {100}
CurrentReadingChoices == {100, 105, 110, 120}

\* histories of up to n consumptions, oldest first
RECURSIVE Histories(_)
Histories(n) ==
    IF n = 0 THEN {<<>>}
    ELSE Histories(n - 1) \cup
         {Append(h, x) : h \in {g \in Histories(n - 1) : Len(g) = n - 1},
                         x \in ConsumptionChoices}

\* metadata = None, or a dict with the three keys the function reads
NoMetadata == [given |-> FALSE]
MetadataChoices ==
    {NoMetadata} \cup
    [given : {TRUE}, photo_age_minutes : {MaxPhotoAgeMinutes, MaxPhotoAgeMinutes + 1},
     has_gps : BOOLEAN, edited : BOOLEAN]

RECURSIVE SeqSum(_)
SeqSum(s) == IF s = <<>> THEN 0 ELSE Head(s) + SeqSum(Tail(s))

RECURSIVE SumOfSquares(_)
SumOfSquares(s) == IF s = <<>> THEN 0 ELSE Head(s) * Head(s) + SumOfSquares(Tail(s))

\* a float comparison "lhs >= rhs" of two quantities that are equal as
\* fractions: exact when the mean is a whole number, otherwise decided by
\* the rounding of the division (float_up)
AtLeast(lhs, rhs, exact, float_up) ==
    \/ lhs > rhs
    \/ lhs = rhs /\ (exact \/ float_up)

\* calculate_signal_score had it returned the sum without the clamp
calculate_signal_score_unclamped(current_consumption, historical_data, metadata, float_up) ==
    LET n == Len(historical_data)
        S == SeqSum(historical_data)
        Q == SumOfSquares(historical_data)
        dev == n * current_consumption - S
        variance == n * Q - S * S
        exact == S % n = 0
        drop == /\ S > 0
                /\ AtLeast(-HundredPercent * dev, DROP_THRESHOLD_PERCENT * S, exact, float_up)
        spike == /\ S > 0
                 /\ AtLeast(HundredPercent * dev, SPIKE_THRESHOLD_PERCENT * S, exact, float_up)
        zscore == /\ variance > 0
                  /\ LET lhs == Z_SCORE_THRESHOLD_DEN * Z_SCORE_THRESHOLD_DEN
                                * dev * dev * (n - 1)
                         rhs == Z_SCORE_THRESHOLD_NUM * Z_SCORE_THRESHOLD_NUM
                                * n * variance
                     IN  lhs > rhs \/ (lhs = rhs /\ float_up)
        trend == /\ n >= 3
                 /\ historical_data[n - 2] > historical_data[n - 1]
                 /\ historical_data[n - 1] > historical_data[n]
                 /\ current_consumption < historical_data[n]
        old_photo == metadata.given /\ metadata.photo_age_minutes > MaxPhotoAgeMinutes
        no_gps == metadata.given /\ ~metadata.has_gps
        edited == metadata.given /\ metadata.edited
        sum == (IF drop THEN DropPoints ELSE 0) + (IF spike THEN SpikePoints ELSE 0)
               + (IF zscore THEN ZScorePoints ELSE 0) + (IF trend THEN TrendPoints ELSE 0)
               + (IF old_photo THEN OldPhotoPoints ELSE 0)
               + (IF no_gps THEN NoGpsPoints ELSE 0)
               + (IF edited THEN EditedPoints ELSE 0)
        score == sum
    IN  IF n < MIN_HISTORY_MONTHS
        THEN [signal_score |-> 0, signal_level |-> "unknown", anomalies |-> {}]
        ELSE [signal_score |-> score,
              signal_level |-> IF score >= CriticalLevel THEN "critical"
                               ELSE IF score >= HighLevel THEN "high"
                               ELSE IF score >= MediumLevel THEN "medium"
                               ELSE "low",
              anomalies |-> {x \in {"drop", "spike", "zscore", "trend", "old_photo",
                                    "no_gps", "edited"} :
                                \/ x = "drop" /\ drop
                                \/ x = "spike" /\ spike
                                \/ x = "zscore" /\ zscore
                                \/ x = "trend" /\ trend
                                \/ x = "old_photo" /\ old_photo
                                \/ x = "no_gps" /\ no_gps
                                \/ x = "edited" /\ edited}]

\* UsageAnomalySignalDetector.calculate_signal_score: the score, the level
\* and the anomalies it lists
calculate_signal_score(current_consumption, historical_data, metadata, float_up) ==
    LET n == Len(historical_data)
        S == SeqSum(historical_data)
        Q == SumOfSquares(historical_data)
        dev == n * current_consumption - S
        variance == n * Q - S * S
        exact == S % n = 0
        drop == /\ S > 0
                /\ AtLeast(-HundredPercent * dev, DROP_THRESHOLD_PERCENT * S, exact, float_up)
        spike == /\ S > 0
                 /\ AtLeast(HundredPercent * dev, SPIKE_THRESHOLD_PERCENT * S, exact, float_up)
        zscore == /\ variance > 0
                  /\ LET lhs == Z_SCORE_THRESHOLD_DEN * Z_SCORE_THRESHOLD_DEN
                                * dev * dev * (n - 1)
                         rhs == Z_SCORE_THRESHOLD_NUM * Z_SCORE_THRESHOLD_NUM
                                * n * variance
                     IN  lhs > rhs \/ (lhs = rhs /\ float_up)
        trend == /\ n >= 3
                 /\ historical_data[n - 2] > historical_data[n - 1]
                 /\ historical_data[n - 1] > historical_data[n]
                 /\ current_consumption < historical_data[n]
        old_photo == metadata.given /\ metadata.photo_age_minutes > MaxPhotoAgeMinutes
        no_gps == metadata.given /\ ~metadata.has_gps
        edited == metadata.given /\ metadata.edited
        sum == (IF drop THEN DropPoints ELSE 0) + (IF spike THEN SpikePoints ELSE 0)
               + (IF zscore THEN ZScorePoints ELSE 0) + (IF trend THEN TrendPoints ELSE 0)
               + (IF old_photo THEN OldPhotoPoints ELSE 0)
               + (IF no_gps THEN NoGpsPoints ELSE 0)
               + (IF edited THEN EditedPoints ELSE 0)
        score == IF sum > MaxScore THEN MaxScore ELSE IF sum < 0 THEN 0 ELSE sum
    IN  IF n < MIN_HISTORY_MONTHS
        THEN [signal_score |-> 0, signal_level |-> "unknown", anomalies |-> {}]
        ELSE [signal_score |-> score,
              signal_level |-> IF score >= CriticalLevel THEN "critical"
                               ELSE IF score >= HighLevel THEN "high"
                               ELSE IF score >= MediumLevel THEN "medium"
                               ELSE "low",
              anomalies |-> {x \in {"drop", "spike", "zscore", "trend", "old_photo",
                                    "no_gps", "edited"} :
                                \/ x = "drop" /\ drop
                                \/ x = "spike" /\ spike
                                \/ x = "zscore" /\ zscore
                                \/ x = "trend" /\ trend
                                \/ x = "old_photo" /\ old_photo
                                \/ x = "no_gps" /\ no_gps
                                \/ x = "edited" /\ edited}]

\* the rows of one wallet in the last 180 days, newest first
RECURSIVE RowLists(_)
RowLists(n) ==
    IF n = 0 THEN {<<>>}
    ELSE RowLists(n - 1) \cup
         {Append(h, r) : h \in {g \in RowLists(n - 1) : Len(g) = n - 1},
                         r \in [reading_index : RowIndexChoices,
                                consumption_m3 : RowConsumptionChoices]}

\* the positive consumption_m3 of a list of rows
RECURSIVE PositiveConsumptions(_)
PositiveConsumptions(rows) ==
    IF rows = <<>> THEN <<>>
    ELSE IF Head(rows).consumption_m3 > 0
         THEN <<Head(rows).consumption_m3>> \o PositiveConsumptions(Tail(rows))
         ELSE PositiveConsumptions(Tail(rows))

\* AnomalySignalService.check_consumption_drop on the rows its query finds
check_consumption_drop(rows, current_reading) ==
    LET readings6 == SubSeq(rows, 1, IF Len(rows) < HISTORY_LIMIT THEN Len(rows)
                                     ELSE HISTORY_LIMIT)
    IN  IF Len(readings6) < 2
        THEN [warning |-> FALSE, current_consumption |-> 0]
        ELSE LET last_reading == readings6[1]
                 previous_readings == Tail(readings6)
                 current_consumption == current_reading - last_reading.reading_index
                 consumptions == PositiveConsumptions(previous_readings)
             IN  IF consumptions = <<>>
                 THEN [warning |-> FALSE, current_consumption |-> current_consumption]
                 ELSE [warning |-> /\ SeqSum(consumptions) > 0
                                   /\ DropDivisor * Len(consumptions) * current_consumption
                                        < SeqSum(consumptions),
                       current_consumption |-> current_consumption]

\* what a call of a signal function leaves alone
notSignal == <<dbCaseSensitive, dbRepeatableRead, now, users, decls, appeals,
               penaltyLog, credited, reqs, last, minted, qrTokens, rewardCalls,
               demoState, readingCalls, readings, inspections, fraudRecords, deposits,
               cronDue>>

DoCalculateSignalScore ==
    /\ signalCall = NoCall
    /\ \E current_consumption \in ConsumptionChoices,
          historical_data \in Histories(MaxHistory),
          metadata \in MetadataChoices, float_up \in BOOLEAN :
          signalCall' = [op |-> "calculate_signal_score",
                         current_consumption |-> current_consumption,
                         historical_data |-> historical_data,
                         metadata |-> metadata,
                         result |-> calculate_signal_score(current_consumption,
                                        historical_data, metadata, float_up)]
    /\ UNCHANGED notSignal

DoCheckConsumptionDrop ==
    /\ signalCall = NoCall
    /\ \E rows \in RowLists(MaxRows), current_reading \in CurrentReadingChoices :
          signalCall' = [op |-> "check_consumption_drop",
                         rows |-> rows,
                         current_reading |-> current_reading,
                         result |-> check_consumption_drop(rows, current_reading)]
    /\ UNCHANGED notSignal

InitSignal == InitFraud /\ dbCaseSensitive

NextSignal ==
    \/ DoCalculateSignalScore
    \/ DoCheckConsumptionDrop

SpecSignal == InitSignal /\ [][NextSignal]_vars

-----------------------------------------------------------------------------
(* Properties of the declaration lifecycle *)

\* the users rows that exist
UserKeys == {k \in DOMAIN users : users[k].exists}

\* the appeals of declaration d that are still pending
PendingAppealsOf(d) ==
    {a \in 1..Len(appeals) :
        appeals[a].declaration_id = d /\ appeals[a].status = "pending"}

\* C1: each declaration adds its total_reward_amount to its owner's
\* pending_reward_balance at most once, whatever sequence of handlers runs.
C1_RewardCreditedAtMostOnce == \A d \in 1..MaxDecls : credited[d] <= 1

\* C2: of two requests that both read the same declaration as pending (two
\* approve_declaration, or approve_declaration and mark_fraud), at most one
\* reports success.
C2_AtMostOneConcurrentSuccess ==
    \A c1 \in Clients, c2 \in Clients :
        ( /\ c1 # c2
          /\ reqs[c1].pc # "idle"
          /\ reqs[c2].pc # "idle"
          /\ reqs[c1].op = "approve_declaration"
          /\ reqs[c1].d = reqs[c2].d
          /\ reqs[c1].seen = "pending"
          /\ reqs[c2].seen = "pending" )
        => ~(reqs[c1].success /\ reqs[c2].success)

LifecycleEdges ==
    { <<"pending", "approved">>, <<"pending", "rejected">>,
      <<"pending", "expired">>, <<"pending", "fraud">>,
      <<"fraud", "approved">> }

\* an appeal of declaration d is approved in this step
AppealApprovedNow(d) ==
    \E a \in 1..Len(appeals) :
        /\ appeals[a].declaration_id = d
        /\ appeals[a].status = "pending"
        /\ appeals'[a].status = "approved"

\* C3: admin_approval_status changes only along pending->approved,
\* pending->rejected, pending->expired, pending->fraud and fraud->approved,
\* the last only in a step that approves an appeal of the declaration.
C3_OnlyLifecycleEdges ==
    [][\A d \in 1..Len(decls) :
          LET old == decls[d].admin_approval_status
              new == decls'[d].admin_approval_status
          IN  old # new =>
                /\ <<old, new>> \in LifecycleEdges
                /\ (old = "fraud" => AppealApprovedNow(d))]_vars

\* C4: once an appeal of a declaration has been rejected, no later step moves
\* the declaration to approved or adds its reward to a balance.
C4_ConfirmedFraudIsFinal ==
    [][\A a \in 1..Len(appeals) :
          appeals[a].status = "rejected" =>
            LET d == appeals[a].declaration_id
            IN  /\ (decls'[d].admin_approval_status = "approved"
                       => decls[d].admin_approval_status = "approved")
                /\ credited'[d] = credited[d]]_vars

\* C5: in every reachable state a declaration has at most one pending
\* FraudAppeal.
C5_AtMostOnePendingAppeal ==
    \A d \in 1..MaxDecls : Cardinality(PendingAppealsOf(d)) <= 1

\* C6: a mark-fraud request on a declaration that is not pending reports
\* failure and leaves the declaration as it was.
C6_MarkFraudOnlyFromPending ==
    [][\A d \in 1..MaxDecls, o \in Operators, r \in Reasons :
          ( /\ d <= Len(decls)
            /\ decls[d].admin_approval_status # "pending"
            /\ mark_declaration_fraud(d, o, r) )
          => /\ last'.success = FALSE
             /\ decls'[d] = decls[d]]_vars

\* C7: approve_declaration on a declaration that is not pending (approved,
\* rejected, fraud or expired) reports failure and changes neither the
\* declarations nor any balance.
C7_ApproveOnlyFromPending ==
    [][\A d \in 1..MaxDecls, o \in Operators :
          ( /\ d <= Len(decls)
            /\ decls[d].admin_approval_status # "pending"
            /\ approve_declaration(d, o) )
          => /\ last'.success = FALSE
             /\ UNCHANGED <<decls, users, credited>>]_vars

\* a retry of approve_declaration on the approved, credited declaration was
\* just answered
C7_Witness ==
    /\ last = Response("approve_declaration", FALSE, "conflict")
    /\ Len(decls) >= 1
    /\ decls[1].admin_approval_status = "approved"
    /\ credited[1] = 1

\* C8: decide_fraud_appeal on an appeal that is already approved or rejected
\* fails and changes nothing: appeals, declarations, counters, flags and
\* balances stay, and no penalty call is made.
C8_DecideOnlyPendingAppeal ==
    [][\A a \in 1..MaxAppeals, dec \in {"approve", "reject"}, adm \in Admins :
          ( /\ a <= Len(appeals)
            /\ appeals[a].status # "pending"
            /\ decide_fraud_appeal(a, dec, adm) )
          => /\ last'.success = FALSE
             /\ UNCHANGED <<appeals, decls, users, penaltyLog, credited>>]_vars

\* a second decision on a rejected appeal was just answered, after the one
\* penalty call of the first decision
C8_Witness ==
    /\ last = Response("decide_fraud_appeal", FALSE, "conflict")
    /\ \E a \in 1..Len(appeals) : appeals[a].status = "rejected"
    /\ Len(penaltyLog) = 1

\* C9: recycling_fraud_warnings_remaining of every users row is in 0..2 in
\* every reachable state.
C9_WarningsInRange ==
    \A k \in UserKeys :
        users[k].recycling_fraud_warnings_remaining \in 0..WarningCap

\* three appeals were rejected against one wallet: the third rejection met
\* the counter at 0
C9_Witness ==
    /\ Len(penaltyLog) = 3
    /\ \A a \in 1..Len(appeals) : appeals[a].status = "rejected"
    /\ \E k \in UserKeys : users[k].recycling_fraud_warnings_remaining = 0

\* C10: for every users row, is_recycling_blacklisted is true exactly when
\* recycling_fraud_warnings_remaining is 0.
C10_BlacklistedIffNoWarnings ==
    \A k \in UserKeys :
        users[k].is_recycling_blacklisted
            <=> (users[k].recycling_fraud_warnings_remaining = 0)

\* the appeals against wallet w that were decided with the given status
DecidedAppeals(w, status) ==
    {a \in 1..Len(appeals) :
        appeals[a].citizen_wallet[1] = w /\ appeals[a].status = status}

\* C11: once exactly two appeals against a wallet were rejected (and none
\* approved), its users row has counter 0 and is blacklisted, and every
\* create_declaration for that wallet is refused with the blacklist error
\* and stores nothing.
C11_BlacklistedCannotDeclare ==
    [][\A a \in AddrStrings, q \in QuantityChoices :
          ( /\ Cardinality(DecidedAppeals(a[1], "rejected")) = 2
            /\ DecidedAppeals(a[1], "approved") = {}
            /\ create_declaration(a, q[1], q[2], q[3], q[4], q[5]) )
          => /\ \E k \in UserKeys :
                   /\ k[1] = a[1]
                   /\ users[k].recycling_fraud_warnings_remaining = 0
                   /\ users[k].is_recycling_blacklisted
             /\ last' = Response("create_declaration", FALSE, "blacklist")
             /\ decls' = decls]_vars

\* C12: pending_reward_balance of every users row is non-negative in every
\* reachable state, whatever accepted quantities were declared.
C12_BalanceNonNegative ==
    \A k \in UserKeys : users[k].pending_reward_balance >= 0

\* the balance of users row k in table us, 0 if the row does not exist
BalanceIn(us, k) == IF us[k].exists THEN us[k].pending_reward_balance ELSE 0

\* C13: when approve_declaration turns a pending declaration into approved,
\* the owner has a users row afterwards whose pending_reward_balance has
\* grown by the declaration's total_reward_amount, also when the owner had
\* no row before.
C13_ApprovedMeansCredited ==
    [][\A d \in 1..MaxDecls, o \in Operators :
          ( /\ d <= Len(decls)
            /\ decls[d].admin_approval_status = "pending"
            /\ approve_declaration(d, o)
            /\ decls'[d].admin_approval_status = "approved" )
          => \E k \in AddrStrings :
                /\ k[1] = decls[d].wallet_address[1]
                /\ users'[k].exists
                /\ users'[k].pending_reward_balance
                      = BalanceIn(users, k) + decls[d].total_reward_amount]_vars

\* C19: reject_declaration on a pending declaration succeeds, makes it
\* rejected and changes no users row (balance, warning counter, blacklist
\* flag), no appeal and no penalty; on any other declaration it fails and
\* changes nothing.
C19_RejectChangesOnlyTheDeclaration ==
    [][\A d \in 1..MaxDecls, o \in Operators :
          (d <= Len(decls) /\ reject_declaration(d, o))
          => /\ UNCHANGED <<users, appeals, penaltyLog, credited>>
             /\ IF decls[d].admin_approval_status = "pending"
                THEN /\ last'.success = TRUE
                     /\ decls'[d].admin_approval_status = "rejected"
                ELSE /\ last'.success = FALSE
                     /\ decls' = decls]_vars

\* the declaration of a wallet that has a users row was rejected, and a
\* second reject_declaration on it was just refused
C19_Witness ==
    /\ last = Response("reject_declaration", FALSE, "conflict")
    /\ Len(decls) >= 1
    /\ decls[1].admin_approval_status = "rejected"
    /\ \E k \in UserKeys :
          /\ k[1] = decls[1].wallet_address[1]
          /\ users[k].recycling_fraud_warnings_remaining = InitialWarnings

\* C20: when decide_fraud_appeal approves a pending appeal of a declaration
\* in status fraud, afterwards the appeal is approved, the declaration is
\* approved with is_fraud false, the owner's pending_reward_balance has grown
\* by the declaration's total_reward_amount and the owner's warning counter
\* is min(old + 1, 2).
C20_ApprovedAppealRestores ==
    [][\A a \in 1..MaxAppeals, adm \in Admins :
          ( /\ a <= Len(appeals)
            /\ appeals[a].status = "pending"
            /\ decls[appeals[a].declaration_id].admin_approval_status = "fraud"
            /\ decide_fraud_appeal(a, "approve", adm) )
          => LET d == appeals[a].declaration_id
             IN  /\ appeals'[a].status = "approved"
                 /\ decls'[d].admin_approval_status = "approved"
                 /\ decls'[d].is_fraud = FALSE
                 /\ \E k \in UserKeys :
                       /\ k[1] = decls[d].wallet_address[1]
                       /\ users'[k].pending_reward_balance
                             = users[k].pending_reward_balance
                               + decls[d].total_reward_amount
                       /\ users'[k].recycling_fraud_warnings_remaining
                             = IF users[k].recycling_fraud_warnings_remaining + 1
                                    < WarningCap
                               THEN users[k].recycling_fraud_warnings_remaining + 1
                               ELSE WarningCap]_vars

-----------------------------------------------------------------------------
(* Properties of the reward balance and its settlement *)

\* client c has a claim_rewards request, running or answered
Claiming(c) == reqs[c].pc # "idle" /\ reqs[c].op = "claim_rewards"

\* this step is a step of the claim_rewards request of client c
ClaimStep(c) == reqs'[c] # reqs[c] /\ reqs'[c].op = "claim_rewards"

\* C14: claim_rewards zeroes pending_reward_balance only after its mint call
\* returned; when the mint call raises, the request answers with an error
\* and the users table is as it was.
C14_ZeroedOnlyAfterMint ==
    [][\A c \in Clients :
          /\ (ClaimStep(c) /\ users' # users)
                => /\ reqs[c].pc = "claim_commit"
                   /\ users' = [users EXCEPT
                                  ![reqs[c].user_key].pending_reward_balance = 0]
          /\ (reqs[c].pc = "claim_mint" /\ ClaimMint(c, FALSE))
                => /\ last'.success = FALSE
                   /\ users' = users
                   /\ minted' = minted]_vars

\* a claim whose mint call raised has answered with the blockchain error, and
\* the balance still holds the amount it wanted to claim
C14_Witness ==
    \E c \in Clients :
        /\ Claiming(c)
        /\ reqs[c].pc = "done"
        /\ reqs[c].failed_at = "mint"
        /\ reqs[c].amount_to_claim > 0
        /\ users[reqs[c].user_key].pending_reward_balance = reqs[c].amount_to_claim
        /\ last = Response("claim_rewards", FALSE, "blockchain")

RECURSIVE CreditedUpTo(_, _)
\* what the declarations 1..n of wallet w have added to balances
CreditedUpTo(w, n) ==
    IF n = 0 THEN 0
    ELSE CreditedUpTo(w, n - 1)
         + (IF decls[n].wallet_address[1] = w
            THEN credited[n] * decls[n].total_reward_amount ELSE 0)

TotalCredited(w) == CreditedUpTo(w, Len(decls))

\* C15: as long as every commit of claim_rewards went through, the amount
\* minted to a wallet never exceeds the amount credited to its balance, also
\* when two claim_rewards requests of the wallet overlap.
C15_NeverMintedTwice ==
    ( /\ \A c \in Clients : Claiming(c) => reqs[c].failed_at # "commit"
      /\ \A d \in 1..Len(decls) : decls[d].total_reward_amount >= 0 )
    => \A w \in Wallets : minted[w] <= TotalCredited(w)

\* C16: a claim_rewards request that starts after another one of the same
\* wallet minted and then failed to commit does not go on to mint an amount
\* that was minted already.
C16_RetryDoesNotMintAgain ==
    [][\A c \in Clients, c2 \in Clients, a \in AddrStrings :
          ( /\ c # c2
            /\ Claiming(c2)
            /\ reqs[c2].pc = "done"
            /\ reqs[c2].failed_at = "commit"
            /\ reqs[c2].wallet = a[1]
            /\ \A d \in 1..Len(decls) : decls[d].total_reward_amount >= 0
            /\ ClaimBegin(c, a)
            /\ reqs'[c].pc = "claim_mint" )
          => reqs'[c].amount_to_claim <= TotalCredited(a[1]) - minted[a[1]]]_vars

\* C17: approve_declaration on a pending declaration whose qr_expires_at
\* lies in the past fails and credits nothing.
C17_NoApprovalAfterExpiry ==
    [][\A d \in 1..MaxDecls, o \in Operators :
          ( /\ d <= Len(decls)
            /\ decls[d].admin_approval_status = "pending"
            /\ decls[d].qr_expires_at < now
            /\ approve_declaration(d, o) )
          => /\ last'.success = FALSE
             /\ decls'[d].admin_approval_status # "approved"
             /\ users' = users
             /\ credited' = credited]_vars

\* C30: check_and_expire_old_qrs and expire_qr change only declarations that
\* are pending with an unused token whose qr_expires_at has passed;
\* approved, rejected and fraud declarations keep their status, and no
\* pending_reward_balance changes.
C30_SweepTouchesOnlyExpiredPending ==
    [][(check_and_expire_old_qrs \/ \E t \in 1..MaxDecls : expire_qr(t))
          => /\ \A d \in 1..Len(decls) :
                  decls'[d] # decls[d]
                  => /\ decls[d].admin_approval_status = "pending"
                     /\ decls[d].is_qr_used = FALSE
                     /\ decls[d].qr_expires_at < now
             /\ users' = users]_vars

\* the pending_reward_balance of wallet w, over the users rows of its spellings
PendingOf(w) ==
    BalanceIn(users, Spelling(w, "lower")) + BalanceIn(users, Spelling(w, "checksum"))
    + BalanceIn(users, Spelling(w, "upper"))

\* C29: a reward credited while a claim_rewards request of the same wallet
\* is in flight is not lost. Once every request has finished, with one
\* claim_rewards request made, no failed commit and no negative reward, the
\* credits of the wallet equal what was minted to it plus what is left in
\* its pending_reward_balance.
C29_NoCreditLost ==
    ( /\ \A c \in Clients : reqs[c].pc \in {"idle", "done"}
      /\ Cardinality({c \in Clients : Claiming(c)}) <= 1
      /\ \A c \in Clients : Claiming(c) => reqs[c].failed_at # "commit"
      /\ \A d \in 1..Len(decls) : decls[d].total_reward_amount >= 0 )
    => \A w \in Wallets : TotalCredited(w) = minted[w] + PendingOf(w)

-----------------------------------------------------------------------------
(* Properties of the QR validate flow *)

\* C18: once a QR token has been validated successfully, every later
\* validation of that token fails and reward_recycling is not called for it
\* again.
C18_QrTokenSingleUse ==
    [][\A t \in 1..MaxTokens, altered \in BOOLEAN, m \in WasteTypes,
          a \in AddrStrings, chain_ok \in BOOLEAN :
          ( /\ t <= Len(qrTokens)
            /\ rewardCalls[t] >= 1
            /\ validate_recycling(t, altered, m, a, chain_ok) )
          => /\ last'.success = FALSE
             /\ rewardCalls' = rewardCalls]_vars

-----------------------------------------------------------------------------
(* Properties of the water-meter and inspection routes *)

\* the punitive calls issued against identity w
PunitiveCalls(w) == {i \in DOMAIN penaltyLog : penaltyLog[i].wallet[1] = w}

\* the staff or admin decisions taken about identity w: resolved appeals
\* and completed inspections
StaffDecisions(w) ==
    Cardinality({a \in DOMAIN appeals :
                    /\ appeals[a].citizen_wallet[1] = w
                    /\ appeals[a].status # "pending"})
    + Cardinality({n \in DOMAIN inspections :
                    /\ inspections[n].wallet_address[1] = w
                    /\ inspections[n].status # "pending"})

\* C21: no punitive call (submit_fraud_evidence, penalize_user_deposit,
\* full_slash_user) is issued on a score or a detected scenario alone: an
\* identity has never received more punitive calls than staff or admin
\* decisions (resolved appeals, completed inspections) were taken about it.
C21_NoAutomaticPenalty ==
    \A w \in Wallets \cup {DemoKey[1]} :
        Cardinality(PunitiveCalls(w)) <= StaffDecisions(w)

\* C22: each wallet has at most one inspection in status pending, also when
\* two schedule_inspection requests for the wallet run concurrently.
C22_AtMostOnePendingInspection ==
    \A w \in Wallets :
        Cardinality({n \in DOMAIN inspections :
                        /\ inspections[n].wallet_address[1] = w
                        /\ inspections[n].status = "pending"}) <= 1

\* C23: complete_inspection is valid only from pending: called on an
\* inspection that is completed, fraud_found or cancelled it reports
\* failure, leaves the inspection as it is and creates no FraudRecord.
C23_CompleteOnlyFromPending ==
    [][\A n \in 1..MaxInspections, o \in Operators, r \in ActualChoices,
          ff \in BOOLEAN :
          ( /\ n <= Len(inspections)
            /\ inspections[n].status \in {"completed", "fraud_found", "cancelled"}
            /\ complete_inspection(n, o, r, ff) )
          => /\ last'.success = FALSE
             /\ UNCHANGED <<inspections, fraudRecords>>]_vars

\* C24: an inspection completed with an actual reading within the tolerance
\* (5 % of the last reported reading) ends in status completed and creates
\* no FraudRecord, whatever fraud_found flag the caller passed.
C24_WithinToleranceIsNotFraud ==
    [][\A n \in 1..MaxInspections, o \in Operators, r \in ActualChoices,
          ff \in BOOLEAN :
          ( /\ n <= Len(inspections)
            /\ inspections[n].status = "pending"
            /\ WithinTolerance(ReportedReading(inspections[n].wallet_address), r)
            /\ complete_inspection(n, o, r, ff) )
          => /\ inspections'[n].status = "completed"
             /\ fraudRecords' = fraudRecords]_vars

\* C25: when complete_inspection ends in status fraud_found (fraud_found
\* passed as true, difference outside the tolerance), the water warning
\* counter of the inspected identity goes down by exactly 1, and stays at 0
\* when it was 0.
C25_FraudFoundDecrementsWaterCounter ==
    [][\A n \in 1..MaxInspections, o \in Operators, r \in ActualChoices,
          ff \in BOOLEAN :
          ( /\ n <= Len(inspections)
            /\ inspections[n].status = "pending"
            /\ ff
            /\ ~WithinTolerance(ReportedReading(inspections[n].wallet_address), r)
            /\ complete_inspection(n, o, r, ff)
            /\ inspections'[n].status = "fraud_found" )
          => \A k \in UserKeys :
                SameString(k, inspections[n].wallet_address)
                => users'[k].water_fraud_warnings_remaining
                     = IF users[k].water_fraud_warnings_remaining > 0
                       THEN users[k].water_fraud_warnings_remaining - 1
                       ELSE 0]_vars

\* C26: an accepted declaration stores total_reward_amount = floor(plastic_kg
\* * 10 + glass_kg * 12 + metal_kg * 15 + paper_kg * 8 + electronic_count *
\* 25), and an approve_declaration that reports success raises the pending
\* balance of the declaration's owner by exactly the stored amount.
C26_RewardStoredAndCredited ==
    [][/\ \A a \in AddrStrings, q \in QuantityChoices :
            ( /\ create_declaration(a, q[1], q[2], q[3], q[4], q[5])
              /\ last'.success )
            => decls'[Len(decls')].total_reward_amount
                 = (q[1] * RatePlastic + q[2] * RateGlass + q[3] * RateMetal
                    + q[4] * RatePaper + 2 * q[5] * RateElectronic) \div 2
       /\ \A d \in 1..MaxDecls, o \in Operators :
            ( /\ d <= Len(decls)
              /\ approve_declaration(d, o)
              /\ last'.success )
            => \E k \in UserKeys :
                  /\ k[1] = decls[d].wallet_address[1]
                  /\ users'[k].pending_reward_balance
                       = users[k].pending_reward_balance
                         + decls[d].total_reward_amount]_vars

\* C27: a reading that the validation flow classifies as a consumption drop
\* (scenario 2) and that comes without user_confirmed=true is answered as
\* not valid with a consumption_drop_warning; no reward is credited and no
\* reading is submitted.
C27_UnconfirmedDropNotAccepted ==
    [][\A user_confirmed \in BOOLEAN, stored \in BOOLEAN :
          ( /\ ~user_confirmed
            /\ demoState = 1
            /\ validate_water_meter(user_confirmed, stored) )
          => /\ last' = Response("validate_water_meter", FALSE,
                                 "consumption_drop_warning")
             /\ UNCHANGED <<users, readingCalls, penaltyLog>>]_vars

\* an unconfirmed drop was just answered with the warning, after a
\* confirmed one had been submitted and rewarded
C27_Witness ==
    /\ last = Response("validate_water_meter", FALSE, "consumption_drop_warning")
    /\ \E i \in DOMAIN readingCalls : readingCalls[i].reading_index = OcrIndex(1)
    /\ users[DemoKey].exists
    /\ users[DemoKey].pending_reward_balance >= DemoReward

\* C28: every operation resolves a wallet, in whatever letter case it was
\* supplied, to the same stored users row: the lookup by the lower-cased
\* address (create_declaration, approve_declaration) finds the row that the
\* lookup by the checksummed address (login, decide_fraud_appeal,
\* claim_rewards) finds.
C28_OneRowPerWallet ==
    \A a \in AddrStrings :
        FindUser(users, Lower(normalize_wallet_address(a)))
            = FindUser(users, normalize_wallet_address(a))

-----------------------------------------------------------------------------
(* Properties of the expiry sweep *)

\* client c has run, or is running, the sweep
Sweeping(c) == reqs[c].pc # "idle" /\ reqs[c].op = "check_and_expire_old_qrs"

\* C31: the expiry sweep is idempotent and re-entrant. A run of
\* check_and_expire_old_qrs that issues its UPDATE after another run with
\* the same clock value has finished, whether it started after or before
\* that run finished, changes no declaration and reports 0 expired tokens.
C31_SweepIdempotent ==
    [][\A c \in Clients, c2 \in Clients :
          ( /\ c # c2
            /\ Sweeping(c2)
            /\ reqs[c2].pc = "done"
            /\ reqs[c].pc = "sweep_update"
            /\ reqs[c].now = reqs[c2].now
            /\ SweepUpdate(c) )
          => /\ decls' = decls
             /\ reqs'[c].expired_count = 0]_vars

\* two runs at the same clock value have finished; the first expired a
\* token, the second none
C31_Witness ==
    \E c \in Clients, c2 \in Clients :
        /\ c # c2
        /\ Sweeping(c) /\ reqs[c].pc = "done"
        /\ Sweeping(c2) /\ reqs[c2].pc = "done"
        /\ reqs[c].now = reqs[c2].now
        /\ reqs[c2].expired_count >= 1
        /\ reqs[c].expired_count = 0

\* C32: a pending declaration whose token is not used and whose
\* qr_expires_at has passed is eventually no longer listed by
\* get_pending_declarations: the running system moves it out of pending.
C32_ExpiredPendingEventuallyLeaves ==
    \A d \in 1..MaxDecls :
        ( /\ d <= Len(decls)
          /\ decls[d].admin_approval_status = "pending"
          /\ decls[d].is_qr_used = FALSE
          /\ decls[d].qr_expires_at < now )
        ~> (d \notin PendingListed)

-----------------------------------------------------------------------------
(* Properties of the penalty path *)

\* the warning counter and the blacklist flag of every users row
Standing(us) ==
    [k \in {x \in UserStrings : us[x] # NoRow} |->
        <<us[k].recycling_fraud_warnings_remaining, us[k].is_recycling_blacklisted>>]

\* a step of one of the operations that are not an appeal decision
OrdinaryStep ==
    \/ \E a \in AddrStrings, q \in QuantityChoices :
          create_declaration(a, q[1], q[2], q[3], q[4], q[5])
    \/ \E d \in 1..MaxDecls, o \in Operators : approve_declaration(d, o)
    \/ \E d \in 1..MaxDecls, o \in Operators : reject_declaration(d, o)
    \/ \E d \in 1..MaxDecls, o \in Operators, r \in Reasons :
          mark_declaration_fraud(d, o, r)
    \/ check_and_expire_old_qrs
    \/ \E c \in Clients, a \in AddrStrings : ClaimBegin(c, a)
    \/ \E c \in Clients, sent \in BOOLEAN : ClaimMint(c, sent)
    \/ \E c \in Clients, committed \in BOOLEAN : ClaimCommit(c, committed)

\* C33: create_declaration, approve_declaration, reject_declaration,
\* mark_fraud with its appeal, the expiry sweep and claim_rewards leave every
\* warning counter and blacklist flag as it was and issue no penalty call;
\* a step that changes one of them is a decide_fraud_appeal.
C33_StandingChangesOnlyInAppealDecision ==
    [][/\ OrdinaryStep => /\ Standing(users') = Standing(users)
                          /\ penaltyLog' = penaltyLog
       /\ (\/ \E k \in DOMAIN Standing(users) : users'[k] = NoRow
           \/ \E k \in DOMAIN Standing(users) : Standing(users')[k] # Standing(users)[k]
           \/ penaltyLog' # penaltyLog)
          => \E a \in 1..MaxAppeals, dec \in Decisions, adm \in Admins :
                decide_fraud_appeal(a, dec, adm)]_vars

\* a wallet that has lost a warning to a rejected appeal has since been paid
\* out by claim_rewards, with its counter still one below the initial value
C33_Witness ==
    /\ last = Response("claim_rewards", TRUE, "")
    /\ Len(penaltyLog) >= 1
    /\ \E k \in UserKeys :
          /\ users[k].recycling_fraud_warnings_remaining = InitialWarnings - 1
          /\ users[k].pending_reward_balance = 0

\* the mark-fraud requests on declaration d that have not answered yet
MarkingOf(d) ==
    {c \in Clients : /\ reqs[c].pc \in {"mark_commit", "mark_appeal"}
                     /\ reqs[c].d = d}

\* C34: once the mark-fraud requests on a declaration have answered, a
\* declaration in status fraud has a FraudAppeal row (pending until it is
\* resolved): no declaration stays in fraud without any appeal.
C34_FraudHasAppeal ==
    \A d \in 1..MaxFraudDecls :
        ( /\ d <= Len(decls)
          /\ decls[d].admin_approval_status = "fraud"
          /\ MarkingOf(d) = {} )
        => \E a \in DOMAIN appeals : appeals[a].declaration_id = d

\* C35: when decide_fraud_appeal rejects and the penalty client raises, the
\* request goes on to its commit, and a commit the database accepts stores
\* the local decision: the appeal is rejected, the lowered counter and the
\* blacklist flag are stored, and the request reports success.
C35_PenaltyFailureKeepsDecision ==
    [][\A c \in Clients :
          /\ ( /\ reqs[c].pc = "reject_penalty"
               /\ reqs'[c] # reqs[c]
               /\ reqs'[c].outcome # "sent" )
             => /\ reqs'[c].pc = "reject_commit"
                /\ UNCHANGED <<last, users, appeals>>
          /\ ( /\ reqs[c].pc = "reject_commit"
               /\ reqs[c].outcome # "sent"
               /\ RejectCommit(c, TRUE) )
             => /\ appeals'[reqs[c].appeal].status = "rejected"
                /\ users'[reqs[c].user_key].recycling_fraud_warnings_remaining
                      = reqs[c].remaining_warnings
                /\ users'[reqs[c].user_key].is_recycling_blacklisted
                      = (reqs[c].remaining_warnings <= 0)
                /\ last' = Response("decide_fraud_appeal", TRUE, "")]_vars

\* a rejection whose penalty call raised has answered with success: the
\* appeal is rejected and the user, left without warnings, is blacklisted
C35_Witness ==
    \E c \in Clients :
        /\ reqs[c].pc = "done"
        /\ reqs[c].op = "decide_fraud_appeal"
        /\ reqs[c].success
        /\ reqs[c].outcome = "raised"
        /\ appeals[reqs[c].appeal].status = "rejected"
        /\ users[reqs[c].user_key].recycling_fraud_warnings_remaining = 0
        /\ users[reqs[c].user_key].is_recycling_blacklisted

\* C36: on reject with a working chain, a partial (25%) deposit penalty is
\* submitted through the penalty client when the counter stays above 0, and a
\* full slash is submitted when the counter reaches 0.
C36_PartialOrFullPenaltySubmitted ==
    [][\A c \in Clients :
          (reqs[c].pc = "reject_penalty" /\ RejectPenalty(c, TRUE))
          => LET call == penaltyLog'[Len(penaltyLog')]
             IN  /\ call.outcome = "sent"
                 /\ IF reqs[c].remaining_warnings > 0
                    THEN /\ call.fn = "penalize_user_deposit"
                         /\ call.penalty_percent = PartialPercent
                    ELSE call.fn = "full_slash_user"]_vars

\* C37: the penalty client is called for an appeal rejection only after the
\* new local state has been committed: at the call the appeal is stored as
\* rejected.
C37_PenaltyAfterCommit ==
    [][\A c \in Clients :
          (reqs[c].pc = "reject_penalty" /\ penaltyLog' # penaltyLog)
          => appeals[reqs[c].appeal].status = "rejected"]_vars

-----------------------------------------------------------------------------
(* Properties of the signal functions *)

\* the points of one anomaly
Points(x) ==
    CASE x = "drop" -> DropPoints
      [] x = "spike" -> SpikePoints
      [] x = "zscore" -> ZScorePoints
      [] x = "trend" -> TrendPoints
      [] x = "old_photo" -> OldPhotoPoints
      [] x = "no_gps" -> NoGpsPoints
      [] x = "edited" -> EditedPoints

RECURSIVE TotalPoints(_)
TotalPoints(xs) ==
    IF xs = {} THEN 0
    ELSE LET x == CHOOSE y \in xs : TRUE
         IN  Points(x) + TotalPoints(xs \ {x})

\* C38: with at least 3 history points calculate_signal_score returns the sum
\* of the points of the anomalies it lists (drop 40, spike 20, z-score 25,
\* trend 15, old photo 10, no GPS 5, edited 20) clamped to 0..100, and the
\* level critical from 70, high from 50, medium from 30, low below 30; with
\* fewer than 3 history points it returns score 0 and level unknown.
C38_ScoreIsClampedSum ==
    signalCall.op = "calculate_signal_score"
    => LET r == signalCall.result
           total == TotalPoints(r.anomalies)
       IN  IF Len(signalCall.historical_data) < 3
           THEN r.signal_score = 0 /\ r.signal_level = "unknown"
           ELSE /\ r.signal_score = IF total > 100 THEN 100 ELSE total
                /\ r.signal_level = "critical" <=> r.signal_score >= 70
                /\ r.signal_level = "high" <=> (50 <= r.signal_score /\ r.signal_score < 70)
                /\ r.signal_level = "medium" <=> (30 <= r.signal_score /\ r.signal_score < 50)
                /\ r.signal_level = "low" <=> r.signal_score < 30

\* a call whose anomalies add up to more than 100 points and whose score is
\* 100: a falling history, a current value far below it, an old edited photo
\* without GPS
C38_Witness ==
    /\ signalCall.op = "calculate_signal_score"
    /\ Len(signalCall.historical_data) >= 3
    /\ TotalPoints(signalCall.result.anomalies) > 100
    /\ signalCall.result.signal_score = 100
    /\ signalCall.result.signal_level = "critical"

\* C39: with at least 2 readings in the window, check_consumption_drop warns
\* whenever the current consumption is 50% or more below the mean of the
\* prior positive consumptions, a drop of exactly 50% included; with fewer
\* than 2 readings it does not warn.
C39_WarnsFromFiftyPercent ==
    signalCall.op = "check_consumption_drop"
    => LET rows == signalCall.rows
           prior == PositiveConsumptions(Tail(rows))
           current == signalCall.current_reading - rows[1].reading_index
       IN  IF Len(rows) < 2
           THEN signalCall.result.warning = FALSE
           ELSE (prior # <<>> /\ 2 * Len(prior) * current <= SeqSum(prior))
                => signalCall.result.warning = TRUE

\* C40: penalize_user_deposit sends a transaction only when a decision_id is
\* supplied; a call without one raises at the guard, before any transaction
\* is built or sent, whatever the state of the chain.
C40_NoPenaltyWithoutDecisionId ==
    \A i \in DOMAIN penaltyLog :
        penaltyLog[i].fn = "penalize_user_deposit"
        => /\ penaltyLog[i].outcome = "sent" => penaltyLog[i].decision_id # NoDecision
           /\ penaltyLog[i].decision_id = NoDecision => penaltyLog[i].outcome = "blocked"

\* the client was called once without a decision_id and was stopped at the
\* guard, and once with one and sent the transaction
C40_Witness ==
    \E i, j \in DOMAIN penaltyLog :
        /\ penaltyLog[i].fn = "penalize_user_deposit"
        /\ penaltyLog[i].decision_id = NoDecision
        /\ penaltyLog[i].outcome = "blocked"
        /\ penaltyLog[j].fn = "penalize_user_deposit"
        /\ penaltyLog[j].decision_id # NoDecision
        /\ penaltyLog[j].outcome = "sent"

====
